---- MODULE Spec2Model ----
(***************************************************************************)
(* Patch editing tools and the undo/redo history of friendly_ground_truth. *)
(*                                                                         *)
(* The tools (controller/tools.py) are translated from the source.  The    *)
(* Patch, the UndoManager and the controller callbacks the tools call are  *)
(* not among the source files; they are modelled from the specification    *)
(* (sections 3, 4.1, 4.2) and marked so where they are defined.            *)
(*                                                                         *)
(* Thresholds and tolerances are counted in hundredths (0.01 = 1), so the  *)
(* interval [0,1] is 0..100.                                               *)
(*                                                                         *)
(* Patches are objects on a heap: the image's patch list, the tools and    *)
(* the undo entries hold object ids, and copy.deepcopy makes a new object. *)
(*                                                                         *)
(* Event handlers run one at a time on the Tk main loop, so each handler   *)
(* is one action.  The brush fills started by on_drag run on their own     *)
(* threads (threading.Thread(target=self._draw)): a fill is its own action *)
(* and can run after any later handler.                                    *)
(***************************************************************************)
EXTENDS Integers, Sequences, FiniteSets, TLC

VARIABLES
    heap,         \* the Patch objects: object id -> [patch_index, mask, threshold]
    patches,      \* image.patches: patch index -> id of the live Patch object
    cur,          \* the controller's current patch index; every tool is bound to patches[cur]
    um,           \* the UndoManager: [undo_stack, redo_stack]
    tt,           \* ThresholdTool: [threshold, new_patch, can_undo, slider_init]
    brush,        \* brush_radius of AddRegionTool ("add") and RemoveRegionTool ("remove")
    flood,        \* FloodAddTool ("add"), FloodRemoveTool ("remove"): [tolerance, prev_position],
                  \* and history: clicked, a click on the tool since its patch was set
    fills,        \* the "draw" threads started by on_drag and not yet run
    nEvents,      \* number of input events handled so far
    toolbar,      \* active: the registry's state of each tool; disabled: the disabled buttons
    preview,      \* MainWindow: the preview timers and the show_image calls under way
    logger,       \* EventLogger: [active_tool, events]
    last,         \* history: what the last step did
    rt            \* history: progress of an N edits / N undos / N redos round trip

vars == <<heap, patches, cur, um, tt, brush, flood, fills, toolbar, preview, logger, nEvents, last, rt>>

----------------------------------------------------------------------------
(* Bounds of the model *)

NumPatches == 2      \* patches of the image
Width == 2           \* patch width in cells
Height == 2          \* patch height in cells
MaxUndo == 2         \* capacity of the undo stack
MaxEvents == 3       \* input events in one behaviour
MaxFills == 2        \* draw threads in flight at once
MaxTimers == 3       \* preview timers created in one behaviour
MaxLogged == 2       \* events logged in one behaviour
MaxIdLen == 2        \* characters of a tool id given to log_event

(* Program constants *)

ThresholdMax == 100         \* threshold <= 1
InitBrushRadius == 15
InitTolerance == 5          \* 0.05
ThresholdIncrement == 1     \* ThresholdTool: self._increment = 0.01
FloodIncrement == 1         \* FloodAddTool, FloodRemoveTool: self._increment = 0.01
BrushIncrement == 1         \* on_adjust: self.brush_radius += 1

PatchIds == 0..(NumPatches - 1)
Cells == (0..(Width - 1)) \X (0..(Height - 1))
None == <<>>                \* Python's None; Some(x) is <<x>>
Some(x) == <<x>>

----------------------------------------------------------------------------
(* Patch: modelled from the specification, sections 3 and 4.1 *)

\* pixel_data of a patch, in hundredths; read-only
Pixel(i, c) == 10 + 25 * c[2] + 5 * c[1] + 5 * i * c[1]

\* cells within Euclidean distance radius of center, clipped to the patch
Disk(center, radius) ==
    {c \in Cells :
        (c[1] - center[1]) * (c[1] - center[1])
      + (c[2] - center[2]) * (c[2] - center[2]) <= radius * radius}

\* remove_region as it would be if it left the rim of the disk
remove_region_Inside(p, center, radius) ==
    [p EXCEPT !.mask = @ \ Disk(center, radius - 1)]

add_region(p, center, radius) ==
    [p EXCEPT !.mask = @ \cup Disk(center, radius)]

remove_region(p, center, radius) ==
    [p EXCEPT !.mask = @ \ Disk(center, radius)]

clear_mask(p) == [p EXCEPT !.mask = {}]

Adjacent(a, b) ==
    \/ a[1] = b[1] /\ (a[2] - b[2] = 1 \/ b[2] - a[2] = 1)
    \/ a[2] = b[2] /\ (a[1] - b[1] = 1 \/ b[1] - a[1] = 1)

Abs(x) == IF x < 0 THEN -x ELSE x

\* cells whose intensity is within tolerance of the seed's
Similar(i, seed, tolerance) ==
    {c \in Cells : Abs(Pixel(i, c) - Pixel(i, seed)) <= tolerance}

RECURSIVE Grow(_, _)
Grow(region, allowed) ==
    LET more == {c \in allowed \ region : \E r \in region : Adjacent(c, r)}
    IN  IF more = {} THEN region ELSE Grow(region \cup more, allowed)

\* connected component of the seed among the similar cells; empty outside the patch
FloodRegion(i, seed, tolerance) ==
    IF seed \notin Cells \/ seed \notin Similar(i, seed, tolerance) THEN {}
    ELSE Grow({seed}, Similar(i, seed, tolerance))

flood_add_region(p, seed, tolerance) ==
    [p EXCEPT !.mask = @ \cup FloodRegion(p.patch_index, seed, tolerance)]

flood_remove_region(p, seed, tolerance) ==
    [p EXCEPT !.mask = @ \ FloodRegion(p.patch_index, seed, tolerance)]

\* the mask a threshold gives: fully recomputed from pixel_data
ThresholdMask(i, value) == {c \in Cells : Pixel(i, c) > value}

\* Patch.threshold = value
set_threshold(p, value) ==
    [p EXCEPT !.threshold = value, !.mask = ThresholdMask(p.patch_index, value)]

NewPatch(i, t) ==
    [patch_index |-> i, mask |-> ThresholdMask(i, t), threshold |-> t]

----------------------------------------------------------------------------
(* The heap of Patch objects *)

ObjIds == 0..(NumPatches + MaxUndo)

\* the content of an object id that no live reference holds
Free == [patch_index |-> -1, mask |-> {}, threshold |-> 0]

\* the object a new allocation gets: the least id not in use
Fresh(h) == CHOOSE o \in ObjIds : h[o] = Free /\ \A q \in ObjIds : h[q] = Free => o <= q

\* copy.deepcopy(patch): a new object with the same content
deepcopy(h, ref) == [heap |-> [h EXCEPT ![Fresh(h)] = h[ref]], ref |-> Fresh(h)]

StackRefs(stack) == {stack[k].snapshot : k \in 1..Len(stack)}

\* the objects the program still holds a reference to
Roots(ps, u) ==
    {ps[i] : i \in PatchIds} \cup StackRefs(u.undo_stack) \cup StackRefs(u.redo_stack)

\* reference counting: an object nothing refers to is gone
Collect(h, ps, u) == [o \in ObjIds |-> IF o \in Roots(ps, u) THEN h[o] ELSE Free]

----------------------------------------------------------------------------
(* UndoManager: modelled from the specification, sections 3 and 4.2 *)

\* an undo entry; stamp is history: the number of the event that made the entry
UndoEntry(snapshot, tag, stamp) == [snapshot |-> snapshot, tag |-> tag, stamp |-> stamp]

Top(stack) == stack[Len(stack)]
Front(stack) == SubSeq(stack, 1, Len(stack) - 1)

\* a stack that is never cut
Evict_Never(stack) == stack

\* keep the most recent MaxUndo entries: the oldest one goes
Evict(stack) == IF Len(stack) > MaxUndo THEN Tail(stack) ELSE stack

\* add_to_undo_stack(patch_snapshot, tag)
add_to_undo_stack(u, snapshot, tag, stamp) ==
    [undo_stack |-> Evict(Append(u.undo_stack, UndoEntry(snapshot, tag, stamp))),
     redo_stack |-> <<>>]

\* undo(): the heap and manager afterwards, and the (snapshot, tag) returned;
\* current is the live patch object
undo(h, u, current) ==
    IF u.undo_stack = <<>>
    THEN [heap |-> h, um |-> u, ret |-> None]
    ELSE LET e == Top(u.undo_stack)
             c == deepcopy(h, current)
         IN  [heap |-> c.heap,
              um   |-> [undo_stack |-> Front(u.undo_stack),
                        redo_stack |-> Append(u.redo_stack,
                                              UndoEntry(c.ref, e.tag, e.stamp))],
              ret  |-> Some(e)]

\* redo(): symmetric
redo(h, u, current) ==
    IF u.redo_stack = <<>>
    THEN [heap |-> h, um |-> u, ret |-> None]
    ELSE LET e == Top(u.redo_stack)
             c == deepcopy(h, current)
         IN  [heap |-> c.heap,
              um   |-> [undo_stack |-> Append(u.undo_stack,
                                              UndoEntry(c.ref, e.tag, e.stamp)),
                        redo_stack |-> Front(u.redo_stack)],
              ret  |-> Some(e)]

----------------------------------------------------------------------------
(* History variables (not program state) *)

\* what a step records in last; info overrides the defaults
Record(op, info) ==
    info @@ [op       |-> op,
             pos      |-> None,                      \* the position given
             idx      |-> cur,                       \* the bound patch before the step
             pre      |-> heap[patches[cur]],        \* its content before the step
             pushes   |-> 0,                         \* calls of add_to_undo_stack
             edits    |-> 0,                         \* calls that change a mask or threshold
             ret      |-> None,                      \* what went to the activation callback
             stamp    |-> 0,                         \* of a draw thread: its drag event
             undoLen  |-> Len(um.undo_stack),        \* depth of the undo stack before the step
             redoLen  |-> Len(um.redo_stack),        \* depth of the redo stack before the step
             inflight |-> Cardinality(fills),        \* draw threads in flight at the start
             calls    |-> <<>>]                      \* the observer calls made, in order

\* an input event is handled: it is counted and recorded
Handled(op, info) ==
    /\ nEvents < MaxEvents
    /\ nEvents' = nEvents + 1
    /\ last' = Record(op, info)

RtOff == [phase |-> "off", n |-> 0, k |-> 0, op |-> "", idx |-> 0, pre |-> Free, post |-> Free,
          adj |-> 0, len |-> 0]

\* one more edit of an uninterrupted run of edits since the history was empty
\* (op: the edit; idx, pre, post: the patch it edited, before and after)
RtEdit(r, op, idx, pre, post) ==
    IF r.phase = "edits"
    THEN [phase |-> "edits", n |-> r.n + 1, k |-> 0,
          op |-> op, idx |-> idx, pre |-> pre, post |-> post,
          adj |-> 0, len |-> Len(um.undo_stack)]
    ELSE RtOff

\* one more on_adjust that re-runs the fill of the click op, the last edit of the
\* run; post is the edited patch afterwards
RtAdjust(r, op, post) ==
    IF r.phase = "edits" /\ r.n > 0 /\ r.op = op
    THEN [r EXCEPT !.adj = r.adj + 1, !.post = post]
    ELSE RtOff

\* an undo after the n edits
RtUndo(r) ==
    IF (r.phase = "edits" /\ r.n > 0) \/ (r.phase = "undos" /\ r.k < r.n)
    THEN [r EXCEPT !.phase = "undos", !.k = r.k + 1]
    ELSE RtOff

\* a redo after the n undos
RtRedo(r) ==
    IF r.phase = "undos" /\ r.k = r.n THEN [r EXCEPT !.phase = "redos", !.k = 1]
    ELSE IF r.phase = "redos" /\ r.k < r.n THEN [r EXCEPT !.k = r.k + 1]
    ELSE RtOff

----------------------------------------------------------------------------
(* The controller: modelled from the specification, sections 3 and 4.2.    *)
(* It binds every tool to the displayed patch and installs what undo and   *)
(* redo return.                                                            *)

\* the three variables that hold references change together
Commit(h, ps, u) ==
    /\ heap' = Collect(h, ps, u)
    /\ patches' = ps
    /\ um' = u

\* the setter as it would be if every binding counted as a new patch
ThresholdTool_patch_set_AlwaysNew(t, oldIdx, p) ==
    [t EXCEPT !.new_patch = TRUE,
              !.slider_init = FALSE,
              !.threshold = p.threshold]

\* ThresholdTool.patch = patch, the tool having been bound to patch oldIdx
ThresholdTool_patch_set(t, oldIdx, p) ==
    [t EXCEPT !.new_patch = IF p.patch_index # oldIdx THEN TRUE ELSE @,
              !.slider_init = FALSE,
              !.threshold = p.threshold]

\* FloodAddTool.patch = patch, FloodRemoveTool.patch = patch
\* the setter as it would be if it kept the remembered seed
FloodTool_patch_set_KeepsSeed(f) == f

FloodTool_patch_set(f) == [f EXCEPT !.prev_position = None]

\* the displayed patch becomes the object p (content h[p]): every tool is rebound
Rebind(h, p) ==
    /\ cur' = h[p].patch_index
    /\ tt' = ThresholdTool_patch_set(tt, cur, h[p])
    /\ flood' = [k \in DOMAIN flood |-> [FloodTool_patch_set(flood[k]) EXCEPT !.clicked = FALSE]]

\* the next/previous patch callback: (None, -1) changes nothing
patch_callback(nav) ==
    IF nav.index = -1
    THEN UNCHANGED <<cur, tt, flood>>
    ELSE Rebind(heap, nav.patch)

\* the callback as it would be if it put the snapshot in the place of the
\* displayed patch, whatever the snapshot's patch_index
undo_callback_AtCurrent(r) ==
    IF r.ret = None
    THEN /\ Commit(r.heap, patches, r.um)
         /\ UNCHANGED <<cur, tt, flood>>
    ELSE LET snap == r.ret[1].snapshot
         IN  /\ Commit(r.heap, [patches EXCEPT ![cur] = snap], r.um)
             /\ Rebind(r.heap, snap)

\* the undo/redo callback: the returned snapshot becomes the live patch of its
\* index and is displayed; (None, None) changes nothing
undo_callback(r) ==
    IF r.ret = None
    THEN /\ Commit(r.heap, patches, r.um)
         /\ UNCHANGED <<cur, tt, flood>>
    ELSE LET snap == r.ret[1].snapshot
         IN  /\ Commit(r.heap, [patches EXCEPT ![r.heap[snap].patch_index] = snap], r.um)
             /\ Rebind(r.heap, snap)

\* what undo() or redo() returned, by content
Returned(r) ==
    IF r.ret = None THEN None
    ELSE Some([snapshot |-> r.heap[r.ret[1].snapshot], tag |-> r.ret[1].tag])

----------------------------------------------------------------------------
(* The tools: controller/tools.py *)

\* the tag as it would be if the drag id were left out
DragTag_NoSuffix(base, drag_id) == base

\* the tag of a drag step: base, and "_" + str(drag_id) when a drag id is given
DragTag(base, drag_id) ==
    IF drag_id = None THEN base ELSE base \o "_" \o ToString(drag_id[1])

\* FGTTool.bind_to(callback)
bind_to(observers, callback) == Append(observers, callback)

\* the callbacks bound to a tool, in the order they were bound
Observers == bind_to(bind_to(<<>>, "display"), "second")

\* the loop as it would be if it ran from the last callback to the first
notify_observers_Reversed(sees) ==
    [i \in 1..Len(Observers) |-> [ob |-> Observers[Len(Observers) + 1 - i], sees |-> sees]]

\* FGTTool._notify_observers(): the calls it makes, each with the content of
\* the bound patch at the time of the call
notify_observers(sees) ==
    [i \in 1..Len(Observers) |-> [ob |-> Observers[i], sees |-> sees]]

\* self.patch.add_region(position, self.brush_radius)
AddRegionTool_draw(h, position) ==
    [h EXCEPT ![patches[cur]] = add_region(@, position, brush.add)]

\* self.patch.remove_region(position, self.brush_radius)
RemoveRegionTool_draw(h, position) ==
    [h EXCEPT ![patches[cur]] = remove_region(@, position, brush.remove)]

\* _add_region as it would be if a fill took back what the fill one increment
\* higher had added
FloodAddTool_add_region_Refill(h, position, tolerance) ==
    IF position = None THEN h
    ELSE [h EXCEPT ![patches[cur]] =
              flood_add_region(flood_remove_region(@, position[1], tolerance + FloodIncrement),
                               position[1], tolerance)]

\* FloodAddTool._add_region(position)
FloodAddTool_add_region(h, position, tolerance) ==
    IF position = None THEN h
    ELSE [h EXCEPT ![patches[cur]] = flood_add_region(@, position[1], tolerance)]

\* FloodRemoveTool._remove_region(position)
FloodRemoveTool_remove_region(h, position, tolerance) ==
    IF position = None THEN h
    ELSE [h EXCEPT ![patches[cur]] = flood_remove_region(@, position[1], tolerance)]

\* on_click as it would be without the call of add_to_undo_stack
AddRegionTool_on_click_NoPush(position) ==
    LET h == AddRegionTool_draw(heap, position)
    IN  /\ Handled("add_region", [pos |-> Some(position), edits |-> 1])
        /\ Commit(h, patches, um)
        /\ rt' = RtEdit(rt, last'.op, cur, heap[patches[cur]], h[patches[cur]])
        /\ UNCHANGED <<cur, tt, brush, flood, fills, toolbar, preview, logger>>

\* on_click as it would be if _draw ran before the snapshot is taken
AddRegionTool_on_click_DrawFirst(position) ==
    LET h == AddRegionTool_draw(heap, position)
        c == deepcopy(h, patches[cur])
        u == add_to_undo_stack(um, c.ref, "add_region", nEvents + 1)
    IN  /\ Handled("add_region", [pos |-> Some(position), pushes |-> 1, edits |-> 1])
        /\ Commit(c.heap, patches, u)
        /\ rt' = RtEdit(rt, last'.op, cur, heap[patches[cur]], h[patches[cur]])
        /\ UNCHANGED <<cur, tt, brush, flood, fills, toolbar, preview, logger>>

\* on_click as it would be if self.patch were pushed without copy.deepcopy
AddRegionTool_on_click_NoCopy(position) ==
    LET u == add_to_undo_stack(um, patches[cur], "add_region", nEvents + 1)
        h == AddRegionTool_draw(heap, position)
    IN  /\ Handled("add_region", [pos |-> Some(position), pushes |-> 1, edits |-> 1])
        /\ Commit(h, patches, u)
        /\ rt' = RtEdit(rt, last'.op, cur, heap[patches[cur]], h[patches[cur]])
        /\ UNCHANGED <<cur, tt, brush, flood, fills, toolbar, preview, logger>>

\* AddRegionTool.on_click(position)
AddRegionTool_on_click(position) ==
    LET c == deepcopy(heap, patches[cur])
        u == add_to_undo_stack(um, c.ref, "add_region", nEvents + 1)
        h == AddRegionTool_draw(c.heap, position)
    IN  /\ Handled("add_region", [pos |-> Some(position), pushes |-> 1, edits |-> 1,
                                  calls |-> notify_observers(h[patches[cur]])])
        /\ Commit(h, patches, u)
        /\ rt' = RtEdit(rt, last'.op, cur, heap[patches[cur]], h[patches[cur]])
        /\ UNCHANGED <<cur, tt, brush, flood, fills, toolbar, preview, logger>>

\* on_click as it would be if _draw ran before the snapshot is taken
RemoveRegionTool_on_click_DrawFirst(position) ==
    LET h == RemoveRegionTool_draw(heap, position)
        c == deepcopy(h, patches[cur])
        u == add_to_undo_stack(um, c.ref, "remove_region", nEvents + 1)
    IN  /\ Handled("remove_region", [pos |-> Some(position), pushes |-> 1, edits |-> 1])
        /\ Commit(c.heap, patches, u)
        /\ rt' = RtEdit(rt, last'.op, cur, heap[patches[cur]], h[patches[cur]])
        /\ UNCHANGED <<cur, tt, brush, flood, fills, toolbar, preview, logger>>

\* RemoveRegionTool.on_click(position)
RemoveRegionTool_on_click(position) ==
    LET c == deepcopy(heap, patches[cur])
        u == add_to_undo_stack(um, c.ref, "remove_region", nEvents + 1)
        h == RemoveRegionTool_draw(c.heap, position)
    IN  /\ Handled("remove_region", [pos |-> Some(position), pushes |-> 1, edits |-> 1,
                                     calls |-> notify_observers(h[patches[cur]])])
        /\ Commit(h, patches, u)
        /\ rt' = RtEdit(rt, last'.op, cur, heap[patches[cur]], h[patches[cur]])
        /\ UNCHANGED <<cur, tt, brush, flood, fills, toolbar, preview, logger>>

\* FloodAddTool.on_click(position)
FloodAddTool_on_click(position) ==
    LET c == deepcopy(heap, patches[cur])
        u == add_to_undo_stack(um, c.ref, "flood_add", nEvents + 1)
        h == FloodAddTool_add_region(c.heap, Some(position), flood.add.tolerance)
    IN  /\ Handled("flood_add", [pos |-> Some(position), pushes |-> 1, edits |-> 1,
                                 calls |-> notify_observers(h[patches[cur]])])
        /\ flood' = [flood EXCEPT !.add.prev_position = Some(position), !.add.clicked = TRUE]
        /\ Commit(h, patches, u)
        /\ rt' = RtEdit(rt, last'.op, cur, heap[patches[cur]], h[patches[cur]])
        /\ UNCHANGED <<cur, tt, brush, fills, toolbar, preview, logger>>

\* FloodRemoveTool.on_click(position)
FloodRemoveTool_on_click(position) ==
    LET c == deepcopy(heap, patches[cur])
        u == add_to_undo_stack(um, c.ref, "flood_remove", nEvents + 1)
        h == FloodRemoveTool_remove_region(c.heap, Some(position), flood.remove.tolerance)
    IN  /\ Handled("flood_remove", [pos |-> Some(position), pushes |-> 1, edits |-> 1,
                                    calls |-> notify_observers(h[patches[cur]])])
        /\ flood' = [flood EXCEPT !.remove.prev_position = Some(position), !.remove.clicked = TRUE]
        /\ Commit(h, patches, u)
        /\ rt' = RtEdit(rt, last'.op, cur, heap[patches[cur]], h[patches[cur]])
        /\ UNCHANGED <<cur, tt, brush, fills, toolbar, preview, logger>>

\* FloodAddTool.tolerance = value: accepted when value >= 0
FloodAddTool_tolerance_set(h, f, value) ==
    IF value >= 0
    THEN LET g == FloodAddTool_add_region(h, f.prev_position, value)
         IN  [heap     |-> g,
              flood    |-> [f EXCEPT !.tolerance = value],
              notified |-> (IF f.prev_position = None THEN 0 ELSE 1) + 1,
              calls    |-> (IF f.prev_position = None THEN <<>>
                            ELSE notify_observers(g[patches[cur]]))
                           \o notify_observers(g[patches[cur]])]
    ELSE [heap |-> h, flood |-> f, notified |-> 0, calls |-> <<>>]

\* on_adjust as it would be if it pushed a snapshot of its own
FloodAddTool_on_adjust_Pushes(direction) ==
    LET value == IF direction > 0 THEN flood.add.tolerance + FloodIncrement
                 ELSE flood.add.tolerance - FloodIncrement
        c == deepcopy(heap, patches[cur])
        u == add_to_undo_stack(um, c.ref, "flood_add", nEvents + 1)
        s == FloodAddTool_tolerance_set(c.heap, flood.add, value)
        h == FloodAddTool_add_region(s.heap, s.flood.prev_position, s.flood.tolerance)
    IN  /\ Handled("flood_add_adjust", [direction |-> direction, value |-> value, pushes |-> 1,
                                      edits |-> IF flood.add.prev_position = None THEN 0 ELSE 1])
        /\ flood' = [flood EXCEPT !.add = s.flood]
        /\ Commit(h, patches, u)
        /\ rt' = RtAdjust(rt, "flood_add", h[patches[cur]])
        /\ UNCHANGED <<cur, tt, brush, fills, toolbar, preview, logger>>

\* FloodAddTool.on_adjust(direction): the tolerance is assigned, then the fill is
\* run once more from the remembered position, whether the assignment was
\* accepted or not
FloodAddTool_on_adjust(direction) ==
    LET value == IF direction > 0 THEN flood.add.tolerance + FloodIncrement
                 ELSE flood.add.tolerance - FloodIncrement
        s == FloodAddTool_tolerance_set(heap, flood.add, value)
        h == FloodAddTool_add_region(s.heap, s.flood.prev_position, s.flood.tolerance)
        again == IF flood.add.prev_position = None THEN 0 ELSE 1
    IN  /\ Handled("flood_add_adjust", [direction |-> direction, value |-> value,
                                      edits |-> again, notified |-> s.notified + again,
                                      calls |-> s.calls \o (IF again = 1
                                                            THEN notify_observers(h[patches[cur]])
                                                            ELSE <<>>)])
        /\ flood' = [flood EXCEPT !.add = s.flood]
        /\ Commit(h, patches, um)
        /\ rt' = RtAdjust(rt, "flood_add", h[patches[cur]])
        /\ UNCHANGED <<cur, tt, brush, fills, toolbar, preview, logger>>

\* the setter as it would be if it accepted 0 as FloodAddTool's does
FloodRemoveTool_tolerance_set_AcceptsZero(h, f, value) ==
    IF value >= 0
    THEN LET g == FloodRemoveTool_remove_region(h, f.prev_position, value)
         IN  [heap     |-> g,
              flood    |-> [f EXCEPT !.tolerance = value],
              notified |-> (IF f.prev_position = None THEN 0 ELSE 1) + 1,
              calls    |-> (IF f.prev_position = None THEN <<>>
                            ELSE notify_observers(g[patches[cur]]))
                           \o notify_observers(g[patches[cur]])]
    ELSE [heap |-> h, flood |-> f, notified |-> 0, calls |-> <<>>]

\* FloodRemoveTool.tolerance = value: accepted when value > 0
FloodRemoveTool_tolerance_set(h, f, value) ==
    IF value > 0
    THEN LET g == FloodRemoveTool_remove_region(h, f.prev_position, value)
         IN  [heap     |-> g,
              flood    |-> [f EXCEPT !.tolerance = value],
              notified |-> (IF f.prev_position = None THEN 0 ELSE 1) + 1,
              calls    |-> (IF f.prev_position = None THEN <<>>
                            ELSE notify_observers(g[patches[cur]]))
                           \o notify_observers(g[patches[cur]])]
    ELSE [heap |-> h, flood |-> f, notified |-> 0, calls |-> <<>>]

\* on_adjust as it would be if it pushed a snapshot of its own
FloodRemoveTool_on_adjust_Pushes(direction) ==
    LET value == IF direction > 0 THEN flood.remove.tolerance + FloodIncrement
                 ELSE flood.remove.tolerance - FloodIncrement
        c == deepcopy(heap, patches[cur])
        u == add_to_undo_stack(um, c.ref, "flood_remove", nEvents + 1)
        s == FloodRemoveTool_tolerance_set(c.heap, flood.remove, value)
        h == FloodRemoveTool_remove_region(s.heap, s.flood.prev_position, s.flood.tolerance)
    IN  /\ Handled("flood_remove_adjust", [direction |-> direction, value |-> value, pushes |-> 1,
                                      edits |-> IF flood.remove.prev_position = None THEN 0 ELSE 1])
        /\ flood' = [flood EXCEPT !.remove = s.flood]
        /\ Commit(h, patches, u)
        /\ rt' = RtAdjust(rt, "flood_remove", h[patches[cur]])
        /\ UNCHANGED <<cur, tt, brush, fills, toolbar, preview, logger>>

\* FloodRemoveTool.on_adjust(direction): the tolerance is assigned, then the fill is
\* run once more from the remembered position, whether the assignment was
\* accepted or not
FloodRemoveTool_on_adjust(direction) ==
    LET value == IF direction > 0 THEN flood.remove.tolerance + FloodIncrement
                 ELSE flood.remove.tolerance - FloodIncrement
        s == FloodRemoveTool_tolerance_set(heap, flood.remove, value)
        h == FloodRemoveTool_remove_region(s.heap, s.flood.prev_position, s.flood.tolerance)
        again == IF flood.remove.prev_position = None THEN 0 ELSE 1
    IN  /\ Handled("flood_remove_adjust", [direction |-> direction, value |-> value,
                                      edits |-> again, notified |-> s.notified + again,
                                      calls |-> s.calls \o (IF again = 1
                                                            THEN notify_observers(h[patches[cur]])
                                                            ELSE <<>>)])
        /\ flood' = [flood EXCEPT !.remove = s.flood]
        /\ Commit(h, patches, um)
        /\ rt' = RtAdjust(rt, "flood_remove", h[patches[cur]])
        /\ UNCHANGED <<cur, tt, brush, fills, toolbar, preview, logger>>

\* a direct or slider assignment add_tool.tolerance = value
FloodAddTool_tolerance(value) ==
    LET s == FloodAddTool_tolerance_set(heap, flood.add, value)
    IN  /\ Handled("flood_add_tolerance",
                   [value |-> value, notified |-> s.notified, calls |-> s.calls,
                    edits |-> IF s.notified = 2 THEN 1 ELSE 0])
        /\ flood' = [flood EXCEPT !.add = s.flood]
        /\ Commit(s.heap, patches, um)
        /\ rt' = RtOff
        /\ UNCHANGED <<cur, tt, brush, fills, toolbar, preview, logger>>

\* a direct or slider assignment remove_tool.tolerance = value
FloodRemoveTool_tolerance(value) ==
    LET s == FloodRemoveTool_tolerance_set(heap, flood.remove, value)
    IN  /\ Handled("flood_remove_tolerance",
                   [value |-> value, notified |-> s.notified, calls |-> s.calls,
                    edits |-> IF s.notified = 2 THEN 1 ELSE 0])
        /\ flood' = [flood EXCEPT !.remove = s.flood]
        /\ Commit(s.heap, patches, um)
        /\ rt' = RtOff
        /\ UNCHANGED <<cur, tt, brush, fills, toolbar, preview, logger>>

\* on_drag as it would be if the thread were started without the snapshot pushed
AddRegionTool_on_drag_NoPush(position, drag_id) ==
    /\ Cardinality(fills) < MaxFills
    /\ Handled("add_region_drag", [pos |-> Some(position)])
    /\ fills' = fills \cup {[tool |-> "add", position |-> position, stamp |-> nEvents + 1,
                           idx |-> cur]}
    /\ rt' = RtEdit(rt, last'.op, cur, heap[patches[cur]], heap[patches[cur]])
    /\ UNCHANGED <<heap, patches, um, cur, tt, brush, flood, toolbar, preview, logger>>

\* AddRegionTool.on_drag(position, drag_id): the snapshot is pushed, then the
\* draw thread is started and the handler returns
AddRegionTool_on_drag(position, drag_id) ==
    LET c == deepcopy(heap, patches[cur])
        u == add_to_undo_stack(um, c.ref, DragTag("add_region_adjust", drag_id), nEvents + 1)
    IN  /\ Cardinality(fills) < MaxFills
        /\ Handled("add_region_drag", [pos |-> Some(position), pushes |-> 1,
                                       drag_id |-> drag_id])
        /\ Commit(c.heap, patches, u)
        /\ fills' = fills \cup {[tool |-> "add", position |-> position, stamp |-> nEvents + 1,
                           idx |-> cur]}
        /\ rt' = RtEdit(rt, last'.op, cur, heap[patches[cur]], c.heap[patches[cur]])
        /\ UNCHANGED <<cur, tt, brush, flood, toolbar, preview, logger>>

\* RemoveRegionTool.on_drag(position, drag_id)
RemoveRegionTool_on_drag(position, drag_id) ==
    LET c == deepcopy(heap, patches[cur])
        u == add_to_undo_stack(um, c.ref, DragTag("remove_region_adjust", drag_id), nEvents + 1)
    IN  /\ Cardinality(fills) < MaxFills
        /\ Handled("remove_region_drag", [pos |-> Some(position), pushes |-> 1,
                                          drag_id |-> drag_id])
        /\ Commit(c.heap, patches, u)
        /\ fills' = fills \cup {[tool |-> "remove", position |-> position, stamp |-> nEvents + 1,
                           idx |-> cur]}
        /\ rt' = RtEdit(rt, last'.op, cur, heap[patches[cur]], c.heap[patches[cur]])
        /\ UNCHANGED <<cur, tt, brush, flood, toolbar, preview, logger>>

\* a thread that ends without calling add_region / remove_region
DrawThread_Dropped(f) ==
    /\ fills' = fills \ {f}
    /\ last' = Record("dropped", [pos |-> Some(f.position), stamp |-> f.stamp])
    /\ UNCHANGED <<heap, patches, um, cur, tt, brush, flood, nEvents, rt, toolbar, preview, logger>>

\* the "draw" thread of a drag step runs _draw(position): it reads self.patch and
\* self.brush_radius when it runs
DrawThread(f) ==
    LET h == IF f.tool = "add" THEN AddRegionTool_draw(heap, f.position)
             ELSE RemoveRegionTool_draw(heap, f.position)
    IN  /\ fills' = fills \ {f}
        /\ last' = Record("draw", [pos |-> Some(f.position), edits |-> 1, stamp |-> f.stamp,
                                   calls |-> notify_observers(h[patches[cur]])])
        /\ Commit(h, patches, um)
        /\ UNCHANGED <<cur, tt, brush, flood, nEvents, rt, toolbar, preview, logger>>

\* AddRegionTool._on_brush_sizer, RemoveRegionTool._on_brush_sizer: the spinbox
\* gives the radius
BrushTool_on_brush_sizer(tool, val) ==
    /\ Handled("brush_size", [edits |-> 0])
    /\ brush' = [brush EXCEPT ![tool] = val]
    /\ UNCHANGED <<heap, patches, cur, um, tt, flood, fills, rt, toolbar, preview, logger>>

\* the setter as it would be without the test 0 <= value <= 1
ThresholdTool_threshold_NoRangeCheck(value, direction) ==
    LET inRange == TRUE
        applies == inRange /\ ~tt.new_patch
        h1 == IF applies
              THEN [heap EXCEPT ![patches[cur]] = set_threshold(@, value)]
              ELSE heap
        c  == deepcopy(h1, patches[cur])
        pushes == applies /\ tt.can_undo
        u  == IF pushes
              THEN add_to_undo_stack(um, c.ref, "threshold_adjust", nEvents + 1)
              ELSE um
        h2 == IF pushes THEN c.heap ELSE h1
    IN  /\ Handled("threshold", [value     |-> value,
                                 direction |-> direction,
                                 pushes    |-> IF pushes THEN 1 ELSE 0,
                                 edits     |-> IF applies THEN 1 ELSE 0,
                                 notified  |-> IF inRange THEN 1 ELSE 0])
        /\ tt' = IF inRange THEN [tt EXCEPT !.threshold = value, !.new_patch = FALSE]
                 ELSE tt
        /\ Commit(h2, patches, u)
        /\ rt' = IF pushes THEN RtEdit(rt, last'.op, cur, heap[patches[cur]], h2[patches[cur]]) ELSE RtOff
        /\ UNCHANGED <<cur, brush, flood, fills, toolbar, preview, logger>>

\* ThresholdTool.threshold = value; direction is history: the on_adjust
\* direction the assignment came from, 0 for a direct or slider assignment
ThresholdTool_threshold(value, direction) ==
    LET inRange == value <= ThresholdMax /\ value >= 0
        applies == inRange /\ ~tt.new_patch
        h1 == IF applies
              THEN [heap EXCEPT ![patches[cur]] = set_threshold(@, value)]
              ELSE heap
        c  == deepcopy(h1, patches[cur])
        pushes == applies /\ tt.can_undo
        u  == IF pushes
              THEN add_to_undo_stack(um, c.ref, "threshold_adjust", nEvents + 1)
              ELSE um
        h2 == IF pushes THEN c.heap ELSE h1
    IN  /\ Handled("threshold", [value     |-> value,
                                 direction |-> direction,
                                 pushes    |-> IF pushes THEN 1 ELSE 0,
                                 edits     |-> IF applies THEN 1 ELSE 0,
                                 notified  |-> IF inRange THEN 1 ELSE 0,
                                 calls     |-> IF inRange
                                               THEN notify_observers(h2[patches[cur]])
                                               ELSE <<>>])
        /\ tt' = IF inRange THEN [tt EXCEPT !.threshold = value, !.new_patch = FALSE]
                 ELSE tt
        /\ Commit(h2, patches, u)
        /\ rt' = IF pushes THEN RtEdit(rt, last'.op, cur, heap[patches[cur]], h2[patches[cur]]) ELSE RtOff
        /\ UNCHANGED <<cur, brush, flood, fills, toolbar, preview, logger>>

\* ThresholdTool.threshold = value, directly or from _on_threshold_slider
ThresholdTool_threshold_set(value) == ThresholdTool_threshold(value, 0)

\* ThresholdTool._on_threshold_slider(value): the first callback since the
\* patch was set only marks the slider as initialised
ThresholdTool_on_threshold_slider(value) ==
    IF tt.slider_init
    THEN ThresholdTool_threshold(value, 0)
    ELSE /\ Handled("slider_init", [value |-> value])
         /\ tt' = [tt EXCEPT !.slider_init = TRUE]
         /\ rt' = RtOff
         /\ UNCHANGED <<heap, patches, cur, um, brush, flood, fills, toolbar, preview, logger>>

\* FGTTool.lock_undos()
lock_undos(t) == [t EXCEPT !.can_undo = FALSE]

\* FGTTool.unlock_undos()
unlock_undos(t) == [t EXCEPT !.can_undo = TRUE]

\* get_info_widget as it would be without the unlock_undos() at its end
ThresholdTool_get_info_widget_NoUnlock(t) == lock_undos(t)

\* ThresholdTool.get_info_widget(parent, controller): the undos are locked
\* while the panel and its slider are built, and unlocked at the end
ThresholdTool_get_info_widget(t) == unlock_undos(lock_undos(t))

\* a step that only changes the threshold tool: it is recorded, not counted
ThresholdTool_becomes(op, t) ==
    /\ tt' = t
    /\ last' = Record(op, [edits |-> 0])
    /\ rt' = RtOff
    /\ UNCHANGED <<heap, patches, cur, um, brush, flood, fills, toolbar, preview, logger, nEvents>>

\* threshold_tool.lock_undos()
ThresholdTool_lock_undos == ThresholdTool_becomes("lock_undos", lock_undos(tt))

\* threshold_tool.unlock_undos()
ThresholdTool_unlock_undos == ThresholdTool_becomes("unlock_undos", unlock_undos(tt))

\* MainWindow.update_info_panel(tool) for the threshold tool: tool.lock_undos(),
\* then tool.get_info_widget(...) builds the new panel
MainWindow_update_info_panel ==
    ThresholdTool_becomes("update_info_panel", ThresholdTool_get_info_widget(lock_undos(tt)))

\* on_adjust as it would be with the direction not inverted
ThresholdTool_on_adjust_NotInverted(direction) ==
    IF direction > 0
    THEN ThresholdTool_threshold(tt.threshold + ThresholdIncrement, direction)
    ELSE ThresholdTool_threshold(tt.threshold - ThresholdIncrement, direction)

\* ThresholdTool.on_adjust(direction) / _adjust_threshold: the direction is
\* inverted, a negative direction raises the threshold
ThresholdTool_on_adjust(direction) ==
    IF direction < 0
    THEN ThresholdTool_threshold(tt.threshold + ThresholdIncrement, direction)
    ELSE ThresholdTool_threshold(tt.threshold - ThresholdIncrement, direction)

\* the setter as it would be without the test value >= 0
BrushTool_brush_radius_set_NoCheck(b, tool, value) == [b EXCEPT ![tool] = value]

\* AddRegionTool.brush_radius = value, RemoveRegionTool.brush_radius = value
BrushTool_brush_radius_set(b, tool, value) ==
    IF value >= 0 THEN [b EXCEPT ![tool] = value] ELSE b

\* the setter's calls of the brush observers: "for ob in self._brush_observers"
\* when the value is accepted
BrushTool_brush_observers(value) == IF value >= 0 THEN 1 ELSE 0

\* a direct assignment tool.brush_radius = value
BrushTool_brush_radius(tool, value) ==
    /\ Handled("brush_radius", [tool |-> tool, value |-> value,
                                 brush_notified |-> BrushTool_brush_observers(value)])
    /\ brush' = BrushTool_brush_radius_set(brush, tool, value)
    /\ UNCHANGED <<heap, patches, cur, um, tt, flood, fills, rt, toolbar, preview, logger>>

\* AddRegionTool.on_adjust(direction), RemoveRegionTool.on_adjust(direction)
BrushTool_on_adjust(tool, direction) ==
    /\ Handled("brush_adjust",
               [tool |-> tool, direction |-> direction,
                brush_notified |->
                    IF direction > 0
                    THEN BrushTool_brush_observers(brush[tool] + BrushIncrement)
                    ELSE BrushTool_brush_observers(brush[tool] - BrushIncrement)])
    /\ brush' = IF direction > 0
                THEN BrushTool_brush_radius_set(brush, tool, brush[tool] + BrushIncrement)
                ELSE BrushTool_brush_radius_set(brush, tool, brush[tool] - BrushIncrement)
    /\ UNCHANGED <<heap, patches, cur, um, tt, flood, fills, rt, toolbar, preview, logger>>

\* _next_patch as it would be if it wrapped around to the first patch
next_patch_Wraps(current_patch_num) ==
    IF current_patch_num + 1 < NumPatches
    THEN [patch |-> patches[current_patch_num + 1], index |-> current_patch_num + 1]
    ELSE [patch |-> patches[0], index |-> 0]

\* NoRootTool._next_patch, NextPatchTool._next_patch
next_patch(current_patch_num) ==
    IF current_patch_num + 1 < NumPatches
    THEN [patch |-> patches[current_patch_num + 1], index |-> current_patch_num + 1]
    ELSE [patch |-> -1, index |-> -1]

\* PreviousPatchTool._prev_patch
prev_patch(current_patch_num) ==
    IF current_patch_num - 1 >= 0
    THEN [patch |-> patches[current_patch_num - 1], index |-> current_patch_num - 1]
    ELSE [patch |-> -1, index |-> -1]

\* on_activate as it would be if _no_root ran before the snapshot is taken
NoRootTool_on_activate_ClearFirst ==
    LET h0 == [heap EXCEPT ![patches[cur]] = clear_mask(@)]
        c == deepcopy(h0, patches[cur])
        u == add_to_undo_stack(um, c.ref, "no_root", nEvents + 1)
        nav == next_patch(cur)
    IN  /\ Handled("no_root", [pushes |-> 1, edits |-> 1, nav |-> nav.index])
        /\ Commit(c.heap, patches, u)
        /\ patch_callback(nav)
        /\ rt' = RtEdit(rt, last'.op, cur, heap[patches[cur]], c.heap[patches[cur]])
        /\ UNCHANGED <<brush, fills>>

\* NoRootTool.on_activate(current_patch_num)
NoRootTool_on_activate ==
    LET c == deepcopy(heap, patches[cur])
        u == add_to_undo_stack(um, c.ref, "no_root", nEvents + 1)
        h == [c.heap EXCEPT ![patches[cur]] = clear_mask(@)]
        nav == next_patch(cur)
    IN  /\ Handled("no_root", [pushes |-> 1, edits |-> 1, nav |-> nav.index])
        /\ Commit(h, patches, u)
        /\ patch_callback(nav)
        /\ rt' = RtEdit(rt, last'.op, cur, heap[patches[cur]], h[patches[cur]])
        /\ UNCHANGED <<brush, fills>>

\* on_activate as it would be if it pushed a snapshot as NoRootTool does
NextPatchTool_on_activate_Pushes ==
    LET c == deepcopy(heap, patches[cur])
        u == add_to_undo_stack(um, c.ref, "next_patch", nEvents + 1)
        nav == next_patch(cur)
    IN  /\ Handled("next_patch", [nav |-> nav.index, pushes |-> 1])
        /\ Commit(c.heap, patches, u)
        /\ patch_callback(nav)
        /\ rt' = RtOff
        /\ UNCHANGED <<brush, fills>>

\* NextPatchTool.on_activate(current_patch_num)
NextPatchTool_on_activate ==
    LET nav == next_patch(cur)
    IN  /\ Handled("next_patch", [nav |-> nav.index])
        /\ patch_callback(nav)
        /\ rt' = RtOff
        /\ UNCHANGED <<heap, patches, um, brush, fills>>

\* PreviousPatchTool.on_activate(current_patch_num)
PreviousPatchTool_on_activate ==
    LET nav == prev_patch(cur)
    IN  /\ Handled("previous_patch", [nav |-> nav.index])
        /\ patch_callback(nav)
        /\ rt' = RtOff
        /\ UNCHANGED <<heap, patches, um, brush, fills>>

\* UndoTool.on_activate(current_patch_num)
UndoTool_on_activate ==
    LET r == undo(heap, um, patches[cur])
    IN  /\ Handled("undo", [ret |-> Returned(r)])
        /\ undo_callback(r)
        /\ rt' = RtUndo(rt)
        /\ UNCHANGED <<brush, fills>>

\* on_activate as it would be if RedoTool._redo called undo_manager.undo()
RedoTool_on_activate_CallsUndo ==
    LET r == undo(heap, um, patches[cur])
    IN  /\ Handled("redo", [ret |-> Returned(r)])
        /\ undo_callback(r)
        /\ rt' = RtRedo(rt)
        /\ UNCHANGED <<brush, fills>>

\* RedoTool.on_activate(current_patch_num)
RedoTool_on_activate ==
    LET r == redo(heap, um, patches[cur])
    IN  /\ Handled("redo", [ret |-> Returned(r)])
        /\ undo_callback(r)
        /\ rt' = RtRedo(rt)
        /\ UNCHANGED <<brush, fills>>

----------------------------------------------------------------------------
(* Tool activation.  The registry of the controller (activate_tool) is       *)
(* modelled from the specification, section 3, Tool lifecycle; the toolbar   *)
(* buttons are MainWindow's (view/main_window.py).                           *)

MarkupTools == {"threshold", "add_region", "remove_region", "flood_add", "flood_remove"}
OneShotTools == {"no_root", "previous_patch", "next_patch", "undo", "redo"}
ToolIds == MarkupTools \cup OneShotTools

\* FGTTool.persistant: the persistant argument of each tool's __init__
persistant(id) == id \in MarkupTools

\* the tool activated at start-up
DefaultTool == "threshold"

\* the registry as it would be if the tool that was active stayed active
activate_tool_KeepsOld(active, id) ==
    IF persistant(id) THEN [active EXCEPT ![id] = TRUE]
    ELSE [active EXCEPT ![DefaultTool] = TRUE]

\* the registry as it would be if a one-shot tool stayed the active tool
activate_tool_NoRevert(active, id) == [t \in ToolIds |-> t = id]

\* activate(tool_id), when on_activate has returned: the tool that was active
\* is inactive and the new one active; after a one-shot tool the default
\* persistent tool is selected again
activate_tool(active, id) ==
    IF persistant(id) THEN [t \in ToolIds |-> t = id]
    ELSE [t \in ToolIds |-> t = DefaultTool]

\* _update_toolbar_state as it would be without the early return for a tool
\* that is not persistent
update_toolbar_state_NoEarlyReturn(disabled, tool_id) ==
    {id \in ToolIds : id = tool_id /\ persistant(id)}

\* MainWindow._update_toolbar_state(tool_id): the buttons that are disabled
update_toolbar_state(disabled, tool_id) ==
    IF ~persistant(tool_id) THEN disabled
    ELSE {id \in ToolIds : id = tool_id /\ persistant(id)}

\* on_activate as it would be if it took a snapshot of the bound patch
MarkupTool_on_activate_Pushes(id) ==
    LET c == deepcopy(heap, patches[cur])
        u == add_to_undo_stack(um, c.ref, "activate", nEvents + 1)
    IN  /\ Handled("activate", [tool |-> id, pushes |-> 1])
        /\ Commit(c.heap, patches, u)
        /\ UNCHANGED <<cur, tt, brush, flood, fills, rt>>

\* on_activate of a markup tool: FGTTool.on_activate is "pass"; the brush tools
\* tell the brush observers the radius
MarkupTool_on_activate(id) ==
    /\ Handled("activate", [tool |-> id])
    /\ UNCHANGED <<heap, patches, cur, um, tt, brush, flood, fills, rt>>

\* tool.on_activate(current_patch_num) for the tool of the given id
on_activate(id) ==
    CASE id = "no_root" -> NoRootTool_on_activate
      [] id = "previous_patch" -> PreviousPatchTool_on_activate
      [] id = "next_patch" -> NextPatchTool_on_activate
      [] id = "undo" -> UndoTool_on_activate
      [] id = "redo" -> RedoTool_on_activate
      [] OTHER -> MarkupTool_on_activate(id)

\* MainWindow._on_tool_selected(id): a toolbar button or a keyboard shortcut
MainWindow_on_tool_selected(id) ==
    /\ on_activate(id)
    /\ toolbar' = [active   |-> activate_tool(toolbar.active, id),
                   disabled |-> update_toolbar_state(toolbar.disabled, id)]
    /\ UNCHANGED <<preview, logger>>

----------------------------------------------------------------------------
(* The preview refresh: MainWindow.show_image(img, new=False).  It is called *)
(* by whoever displays an edit: the handlers on the main loop, and the draw  *)
(* threads, whose _draw ends with _notify_observers().  The statements of a  *)
(* call are separate steps; every self._cur_preview_thread is a read of the  *)
(* attribute at that moment.                                                 *)

TimerIds == 1..MaxTimers
\* 0 is the main loop, the others are draw threads
Threads == 0..MaxFills

\* the timers that are started and have neither fired nor been cancelled
Pending == {id \in TimerIds : preview.timers[id] = "waiting"}

\* threading.Timer.cancel(): a timer that was not started will not fire when it
\* is; one that has fired stays so
Timer_cancel(state) ==
    CASE state = "new" -> "new_cancelled"
      [] state = "waiting" -> "cancelled"
      [] OTHER -> state

\* the call is entered: self._canvas.set_image(img)
show_image_enter(th) ==
    /\ preview.pc[th] = "idle"
    /\ \E id \in TimerIds : preview.timers[id] = "none"
    /\ preview' = [preview EXCEPT !.pc[th] = "check"]

\* if self._cur_preview_thread is not None:
show_image_check(th) ==
    /\ preview.pc[th] = "check"
    /\ preview' = [preview EXCEPT !.pc[th] = IF preview.cur # 0 THEN "cancel" ELSE "assign"]

\* self._cur_preview_thread.cancel()
show_image_cancel(th) ==
    /\ preview.pc[th] = "cancel"
    /\ preview' = [preview EXCEPT !.timers[preview.cur] = Timer_cancel(@),
                                  !.pc[th] = "assign"]

\* self._cur_preview_thread = threading.Timer(1.0, self.update_preview)
show_image_assign(th) ==
    LET id == CHOOSE i \in TimerIds :
                  /\ preview.timers[i] = "none"
                  /\ \A j \in TimerIds : preview.timers[j] = "none" => i <= j
    IN  /\ preview.pc[th] = "assign"
        /\ \E i \in TimerIds : preview.timers[i] = "none"
        /\ preview' = [preview EXCEPT !.timers[id] = "new", !.cur = id, !.pc[th] = "daemon"]

\* self._cur_preview_thread.daemon = True: RuntimeError on a started thread
show_image_daemon(th) ==
    /\ preview.pc[th] = "daemon"
    /\ preview' = IF preview.timers[preview.cur] \in {"new", "new_cancelled"}
                  THEN [preview EXCEPT !.pc[th] = "start"]
                  ELSE [preview EXCEPT !.pc[th] = "idle", !.error = TRUE]

\* self._cur_preview_thread.start(): RuntimeError on a started thread
show_image_start(th) ==
    /\ preview.pc[th] = "start"
    /\ preview' =
           CASE preview.timers[preview.cur] = "new" ->
                    [preview EXCEPT !.timers[preview.cur] = "waiting", !.pc[th] = "idle"]
             [] preview.timers[preview.cur] = "new_cancelled" ->
                    [preview EXCEPT !.timers[preview.cur] = "cancelled", !.pc[th] = "idle"]
             [] OTHER -> [preview EXCEPT !.pc[th] = "idle", !.error = TRUE]

\* one statement of show_image(img, new=False) on thread th
MainWindow_show_image(th) ==
    /\ \/ show_image_enter(th)
       \/ show_image_check(th)
       \/ show_image_cancel(th)
       \/ show_image_assign(th)
       \/ show_image_daemon(th)
       \/ show_image_start(th)
    /\ UNCHANGED <<heap, patches, cur, um, tt, brush, flood, fills, toolbar, logger, nEvents, last, rt>>

\* the interval of a started timer is over: update_preview runs
Timer_run(id) ==
    /\ preview.timers[id] = "waiting"
    /\ preview' = [preview EXCEPT !.timers[id] = "fired"]
    /\ UNCHANGED <<heap, patches, cur, um, tt, brush, flood, fills, toolbar, logger, nEvents, last, rt>>

\* show_image(img, new=True), the canvas being there: the canvas takes the new
\* image and update_preview is started at once on a thread of its own;
\* self._cur_preview_thread is not looked at.  History: the timers pending
\* at the call
MainWindow_show_image_new ==
    /\ last' = Record("show_image_new", [pending |-> Pending])
    /\ UNCHANGED <<heap, patches, cur, um, tt, brush, flood, fills, toolbar, preview, logger, nEvents, rt>>

PreviewNext ==
    \/ \E th \in Threads : MainWindow_show_image(th)
    \/ \E id \in TimerIds : Timer_run(id)
    \/ MainWindow_show_image_new

----------------------------------------------------------------------------
(* The event logger: controller/event_logger.py.  A string is a sequence of *)
(* characters.                                                               *)

Chars == {"A", "b", " ", "_"}

\* str.lower() on one character
lower(ch) == IF ch = "A" THEN "a" ELSE ch

\* value.lower()
str_lower(str) == [n \in 1..Len(str) |-> lower(str[n])]

\* tool_id.replace(" ", "_")
str_replace_space(str) == [n \in 1..Len(str) |-> IF str[n] = " " THEN "_" ELSE str[n]]

\* self._active_tool = "None" in __init__
InitActiveTool == <<"N", "o", "n", "e">>

\* the "?" that stands for no tool id
Unknown == <<"?">>

\* the setter as it would be if it left the spaces
EventLogger_active_tool_set_NoReplace(value) == str_lower(value)

\* EventLogger.active_tool = value
EventLogger_active_tool_set(value) == str_replace_space(str_lower(value))

\* EventLogger.log_event(event_type_id, patch_grid_coord, active_tool_id): the
\* event is given to the logging handler; kept here are the id given and the
\* event_data['active_tool_id'] recorded
EventLogger_log_event(active_tool_id) ==
    LET stored == IF active_tool_id = None \/ active_tool_id = Some(Unknown)
                  THEN logger.active_tool
                  ELSE EventLogger_active_tool_set(active_tool_id[1])
        recorded == IF active_tool_id = None \/ active_tool_id = Some(Unknown)
                    THEN logger.active_tool
                    ELSE active_tool_id[1]
    IN  /\ Len(logger.events) < MaxLogged
        /\ logger' = [active_tool |-> stored,
                      events |-> Append(logger.events,
                                        [given |-> active_tool_id, active_tool_id |-> recorded])]
        /\ UNCHANGED <<heap, patches, cur, um, tt, brush, flood, fills, toolbar, preview,
                       nEvents, last, rt>>

----------------------------------------------------------------------------
(* The inputs of the model *)

ClickPositions == {<<0, 0>>, <<Width - 1, Height - 1>>}
DragIds == {None, Some(1)}
ThresholdValues == {12, 60}
BrushSizes == {1}
InitThresholds == {30}

\* after start-up: the image is cut into patches, each thresholded at t, and the
\* tools are bound to patch 0; the flood tools have the given tolerances and
\* the brush tools the given radius
StartedFrom(t, tolAdd, tolRemove, radius, new_patch) ==
    /\ heap = [o \in ObjIds |-> IF o \in PatchIds THEN NewPatch(o, t) ELSE Free]
    /\ patches = [i \in PatchIds |-> i]
    /\ cur = 0
    /\ um = [undo_stack |-> <<>>, redo_stack |-> <<>>]
    /\ tt = [threshold |-> t, new_patch |-> new_patch, can_undo |-> TRUE, slider_init |-> FALSE]
    /\ brush = [add |-> radius, remove |-> radius]
    /\ flood = [add    |-> [tolerance |-> tolAdd, prev_position |-> None, clicked |-> FALSE],
                remove |-> [tolerance |-> tolRemove, prev_position |-> None, clicked |-> FALSE]]
    /\ fills = {}
    /\ toolbar = [active   |-> [id \in ToolIds |-> id = DefaultTool],
                  disabled |-> {DefaultTool}]
    /\ preview = [cur    |-> 0,
                  timers |-> [id \in TimerIds |-> "none"],
                  pc     |-> [th \in Threads |-> "idle"],
                  error  |-> FALSE]
    /\ logger = [active_tool |-> InitActiveTool, events |-> <<>>]
    /\ nEvents = 0
    /\ last = [op |-> "init", pos |-> None, idx |-> 0, pre |-> NewPatch(0, t),
               pushes |-> 0, edits |-> 0, ret |-> None, stamp |-> 0,
               undoLen |-> 0, redoLen |-> 0, inflight |-> 0]
    /\ rt = [RtOff EXCEPT !.phase = "edits"]

\* the threshold tool has had no assignment since its patch was set
StartedWith(t, tolAdd, tolRemove, radius) == StartedFrom(t, tolAdd, tolRemove, radius, TRUE)

\* the radius is that of AddRegionTool.__init__, RemoveRegionTool.__init__
Started(t, tolAdd, tolRemove) == StartedWith(t, tolAdd, tolRemove, InitBrushRadius)

\* the tolerances are those of FloodAddTool.__init__, FloodRemoveTool.__init__
InitWith(t) == Started(t, InitTolerance, InitTolerance)

Init == \E t \in InitThresholds : InitWith(t)

Next ==
    \/ \E position \in ClickPositions : AddRegionTool_on_click(position)
    \/ \E position \in ClickPositions : RemoveRegionTool_on_click(position)
    \/ \E position \in ClickPositions : FloodAddTool_on_click(position)
    \/ \E position \in ClickPositions : FloodRemoveTool_on_click(position)
    \/ \E position \in ClickPositions, d \in DragIds : AddRegionTool_on_drag(position, d)
    \/ \E position \in ClickPositions, d \in DragIds : RemoveRegionTool_on_drag(position, d)
    \/ \E f \in fills : DrawThread(f)
    \/ \E tool \in {"add", "remove"}, val \in BrushSizes : BrushTool_on_brush_sizer(tool, val)
    \/ \E value \in ThresholdValues : ThresholdTool_threshold_set(value)
    \/ \E id \in OneShotTools : MainWindow_on_tool_selected(id)

Spec == Init /\ [][Next]_vars

----------------------------------------------------------------------------
(* Claims *)

\* the round trip is complete: n edits from an empty history, n undos, n redos,
\* and the step just taken was the last redo
RoundTripDone == last.op = "redo" /\ rt.phase = "redos" /\ rt.k = rt.n

\* C1: after N mutating tool operations from an empty undo history, N undos and
\* then N redos, each returned snapshot being installed as the live patch, the
\* patch the Nth operation edited has exactly the mask it had right after that
\* operation.
C1_RoundTripRestoresMask ==
    RoundTripDone => heap[patches[rt.idx]].mask = rt.post.mask

\* the operations whose handler pushes a snapshot unconditionally
ClickOps == {"add_region", "remove_region", "flood_add", "flood_remove"}
DragOps == {"add_region_drag", "remove_region_drag"}
PushingOps == ClickOps \cup DragOps \cup {"no_root"}

\* the step just taken was an edit that pushes on the undo stack
EditJustDone ==
    last.op \in PushingOps \/ (last.op = "threshold" /\ last.pushes = 1)

\* C2: after a tool has pushed a new entry (any edit outside undo/redo), the redo
\* stack is empty, whatever it held before; a redo finds nothing.
C2_PushClearsRedo == EditJustDone => um.redo_stack = <<>>

\* an edit was made while the redo stack held an entry (after an undo)
C2_Witness == EditJustDone /\ last.redoLen > 0 /\ um.redo_stack = <<>>

\* C3: on a non-empty undo stack, undo removes exactly the top entry, pushes one
\* snapshot of the current live patch on the redo stack under the same tag, and
\* hands the popped snapshot and its tag to the callback; after a single AddRegion
\* click, undo returns "add_region" with the pre-click patch, and the following
\* redo returns the post-click mask.
C3_UndoStep ==
    (last'.op = "undo" /\ um.undo_stack # <<>>) =>
        /\ um'.undo_stack = Front(um.undo_stack)
        /\ Front(um'.redo_stack) = um.redo_stack
        /\ Len(um'.redo_stack) = Len(um.redo_stack) + 1
        /\ Top(um'.redo_stack).tag = Top(um.undo_stack).tag
        /\ heap'[Top(um'.redo_stack).snapshot] = heap[patches[cur]]
        /\ last'.ret = Some([snapshot |-> heap[Top(um.undo_stack).snapshot],
                             tag      |-> Top(um.undo_stack).tag])

C3_AfterClickUndo ==
    (last.op = "undo" /\ rt.phase = "undos" /\ rt.n = 1 /\ rt.op = "add_region") =>
        last.ret = Some([snapshot |-> rt.pre, tag |-> "add_region"])

C3_AfterClickUndoRedo ==
    (RoundTripDone /\ rt.n = 1 /\ rt.op = "add_region") =>
        /\ last.ret # None
        /\ last.ret[1].snapshot.mask = rt.post.mask
        /\ last.ret[1].tag = "add_region"

C3_UndoReturnsTop ==
    /\ [][C3_UndoStep]_vars
    /\ [](C3_AfterClickUndo /\ C3_AfterClickUndoRedo)

\* a click that changed the mask was undone and redone
C3_Witness ==
    /\ RoundTripDone /\ rt.n = 1 /\ rt.op = "add_region"
    /\ rt.pre.mask # rt.post.mask
    /\ um.undo_stack # <<>>

\* every live patch has the content it had
LivePatchesUnchanged == \A i \in PatchIds : heap'[patches'[i]] = heap[patches[i]]

\* C4: undo on an empty undo stack, and redo on an empty redo stack, hands the
\* callback the nothing-to-do result and leaves both stacks and every patch's mask
\* and threshold as they were.
C4_EmptyStep ==
    (\/ last'.op = "undo" /\ um.undo_stack = <<>>
     \/ last'.op = "redo" /\ um.redo_stack = <<>>) =>
        /\ last'.ret = None
        /\ um' = um
        /\ LivePatchesUnchanged
        /\ cur' = cur

C4_EmptyStackNoOp == [][C4_EmptyStep]_vars

\* a redo with nothing to redo, while there was something to undo
C4_Witness == last.op = "redo" /\ last.redoLen = 0 /\ last.undoLen > 0 /\ last.ret = None

\* C5: the undo stack never holds more than MaxUndo entries, and a push on a full
\* stack drops the oldest entry: the others stay, in order, under the new one.
C5_PushStep ==
    (last'.pushes = 1 /\ last'.op # "redo") =>
        /\ um'.undo_stack # <<>>
        /\ Top(um'.undo_stack).stamp = nEvents'
        /\ Front(um'.undo_stack) =
               IF Len(um.undo_stack) >= MaxUndo THEN Tail(um.undo_stack) ELSE um.undo_stack

C5_BoundedUndoStack ==
    /\ [](Len(um.undo_stack) <= MaxUndo)
    /\ [][C5_PushStep]_vars

\* a push on a full stack has dropped the oldest entry
C5_Witness == last.pushes = 1 /\ last.undoLen = MaxUndo /\ Len(um.undo_stack) = MaxUndo

\* C6: the object of an entry that stays on the undo or redo stack is not changed
\* by any step: its mask and threshold are those it was pushed with.
C6_Step ==
    \A o \in (StackRefs(um.undo_stack) \cup StackRefs(um.redo_stack))
             \cap (StackRefs(um'.undo_stack) \cup StackRefs(um'.redo_stack)) :
        heap'[o] = heap[o]

C6_SnapshotsImmutable == [][C6_Step]_vars

\* a stored snapshot differs from the live patch of its index: the live patch was
\* edited after the push, by a click or by a draw thread
C6_Witness ==
    /\ last.op \in {"draw", "flood_add"}
    /\ \E k \in 1..Len(um.undo_stack) :
           LET o == um.undo_stack[k].snapshot
           IN  /\ um.undo_stack[k].stamp < nEvents
               /\ heap[o].mask # heap[patches[heap[o].patch_index]].mask

\* what one edit of a click tool makes of patch p
ClickEdit(op, p, position) ==
    CASE op = "add_region"    -> add_region(p, position, brush.add)
      [] op = "remove_region" -> remove_region(p, position, brush.remove)
      [] op = "flood_add"     -> flood_add_region(p, position, flood.add.tolerance)
      [] op = "flood_remove"  -> flood_remove_region(p, position, flood.remove.tolerance)

\* C7: a click on AddRegion, RemoveRegion, FloodAdd or FloodRemove pushes exactly
\* one entry, which holds the patch as it was before the click, and applies
\* exactly one edit to the bound patch.
C7_ClickPushesThenEdits ==
    last.op \in ClickOps =>
        /\ um.undo_stack # <<>>
        /\ Top(um.undo_stack).tag = last.op
        /\ Top(um.undo_stack).stamp = nEvents
        /\ heap[Top(um.undo_stack).snapshot] = last.pre
        /\ \A k \in 1..(Len(um.undo_stack) - 1) : um.undo_stack[k].stamp < nEvents
        /\ Len(um.undo_stack) =
               IF last.undoLen >= MaxUndo THEN MaxUndo ELSE last.undoLen + 1
        /\ heap[patches[cur]] = ClickEdit(last.op, last.pre, last.pos[1])

\* a RemoveRegion click that changed the mask
C7_Witness ==
    /\ last.op = "remove_region"
    /\ heap[patches[cur]].mask # last.pre.mask
    /\ heap[Top(um.undo_stack).snapshot] = last.pre

\* C8: a tool operation that changes the bound patch has pushed an entry holding
\* the patch as it was before the change; a threshold change pushes the patch
\* with the threshold it had before.
C8_SnapshotBeforeMutation ==
    (/\ last.op \in ClickOps \cup {"no_root", "threshold"}
     /\ heap[patches[last.idx]] # last.pre) =>
        /\ um.undo_stack # <<>>
        /\ Top(um.undo_stack).stamp = nEvents
        /\ heap[Top(um.undo_stack).snapshot] = last.pre

\* C9: no snapshot is pushed while the draw of an earlier push is still to come:
\* push-then-mutate of one action is not interleaved with that of another.
C9_NoInterleavedPush == last.pushes > 0 => last.inflight = 0

\* the stamps of a stack grow from the bottom to the top
Ordered(stack) ==
    \A j, k \in 1..Len(stack) : j < k => stack[j].stamp < stack[k].stamp

\* C10: the undo entries are on the stack in the order of their events; the entry
\* of a drag step is on top of the stack when its draw thread is started; a draw
\* thread that runs, in whatever order, leaves the stacks alone.
C10_DragStep ==
    /\ \A f \in fills' \ fills :
           /\ um'.undo_stack # <<>>
           /\ Top(um'.undo_stack).stamp = f.stamp
           /\ heap'[Top(um'.undo_stack).snapshot] = heap[patches[cur]]
    /\ last'.op = "draw" => um' = um

C10_UndoOrderIsEventOrder ==
    /\ [](Ordered(um.undo_stack))
    /\ [][C10_DragStep]_vars

\* the draw of the later of two drag steps ran first, and both entries are there
C10_Witness ==
    /\ last.op = "draw"
    /\ \E f \in fills : f.stamp < last.stamp
    /\ Len(um.undo_stack) = 2
    /\ um.undo_stack[1].stamp < um.undo_stack[2].stamp
    /\ um.undo_stack[2].stamp = last.stamp

----------------------------------------------------------------------------
(* The draw threads under a fair scheduler *)

\* every fill a drag step can start
FillSet == [tool : {"add", "remove"}, position : ClickPositions, stamp : 1..MaxEvents]

\* a started thread is scheduled sooner or later (the process keeps running)
FairSpec == Spec /\ \A f \in FillSet : WF_vars(f \in fills /\ DrawThread(f))

\* the fill f has just run: the bound patch's mask got its disk added or removed
FillDone(f) ==
    /\ last.op = "draw"
    /\ last.stamp = f.stamp
    /\ f \notin fills
    /\ heap[patches[last.idx]] =
           IF f.tool = "add" THEN add_region(last.pre, f.position, brush.add)
           ELSE remove_region(last.pre, f.position, brush.remove)

----------------------------------------------------------------------------
(* The adjustable parameters: on_adjust and the setters at the ends of      *)
(* their domains                                                            *)

Directions == {-1, 1}
AdjustThresholdValues == {-1, 0, 100, 101}
AdjustBrushSizes == {0}
\* tolerances that on_adjust(-1) or the slider reach from 0.05
AddTolerances == {0, 4}
RemoveTolerances == {1, 4}

AdjustInit ==
    \E t \in InitThresholds, tolAdd \in AddTolerances, tolRemove \in RemoveTolerances :
        Started(t, tolAdd, tolRemove)

AdjustNext ==
    \/ \E position \in ClickPositions : FloodAddTool_on_click(position)
    \/ \E position \in ClickPositions : FloodRemoveTool_on_click(position)
    \/ \E position \in ClickPositions : RemoveRegionTool_on_click(position)
    \/ \E direction \in Directions : FloodAddTool_on_adjust(direction)
    \/ \E direction \in Directions : FloodRemoveTool_on_adjust(direction)
    \/ \E direction \in Directions : ThresholdTool_on_adjust(direction)
    \/ \E value \in AdjustThresholdValues : ThresholdTool_threshold_set(value)
    \/ \E tool \in {"add", "remove"}, direction \in Directions : BrushTool_on_adjust(tool, direction)
    \/ \E tool \in {"add", "remove"}, val \in AdjustBrushSizes : BrushTool_on_brush_sizer(tool, val)
    \/ MainWindow_on_tool_selected("undo")

AdjustSpec == AdjustInit /\ [][AdjustNext]_vars

FloodClickOps == {"flood_add", "flood_remove"}
FloodAdjustOps == {"flood_add_adjust", "flood_remove_adjust"}

\* a flood click, followed by on_adjust calls of the same tool only, has been handled
ClickThenAdjusts == rt.phase = "edits" /\ rt.n > 0 /\ rt.op \in FloodClickOps

C12_OneEntry ==
    ClickThenAdjusts =>
        /\ Len(um.undo_stack) = IF rt.len < MaxUndo THEN rt.len + 1 ELSE MaxUndo
        /\ Top(um.undo_stack).tag = rt.op
        /\ heap[Top(um.undo_stack).snapshot] = rt.pre

C12_Step ==
    /\ last'.op \in FloodAdjustOps => um' = um
    /\ (ClickThenAdjusts /\ last'.op = "undo" /\ nEvents' # nEvents) =>
           heap'[patches'[cur']] = rt.pre

\* C12: after a flood click and any number of on_adjust calls the undo stack
\* has grown by the click's entry only, and one undo brings back the patch as
\* it was before the click.
C12_AdjustAddsNoEntry == []C12_OneEntry /\ [][C12_Step]_vars

\* a flood click, an on_adjust that changed the fill, and the undo of both
C12_Witness ==
    /\ rt.phase = "undos" /\ rt.op \in FloodClickOps /\ rt.adj > 0
    /\ last.op = "undo"
    /\ rt.post.mask # rt.pre.mask
    /\ heap[patches[cur]] = rt.pre

\* a step that assigned a threshold outside [0, 1]
OutOfRangeThreshold ==
    /\ last'.op = "threshold"
    /\ nEvents' # nEvents
    /\ (last'.value < 0 \/ last'.value > ThresholdMax)

\* C13: assigning a threshold outside [0,1], directly or by on_adjust at an end
\* of the interval, changes neither the tool's threshold, nor any patch, nor
\* the undo and redo stacks, and notifies no observer.
C13_OutOfRangeThresholdIgnored ==
    [][OutOfRangeThreshold =>
          /\ tt' = tt
          /\ heap' = heap /\ patches' = patches
          /\ um' = um
          /\ last'.notified = 0]_vars

\* on_adjust at threshold 1 gave 1.01, with the tool past its first assignment
C13_Witness ==
    /\ last.op = "threshold" /\ last.direction # 0
    /\ last.value > ThresholdMax
    /\ ~tt.new_patch /\ tt.threshold = ThresholdMax

Sign(d) == IF d > 0 THEN 1 ELSE -1

\* an on_adjust step of the threshold tool moved the threshold by delta, if
\* that stays in [0, 1]
ThresholdAdjustedBy(delta) ==
    (/\ last'.op = "threshold" /\ last'.direction # 0
     /\ nEvents' # nEvents
     /\ tt.threshold + delta >= 0 /\ tt.threshold + delta <= ThresholdMax) =>
        tt'.threshold = tt.threshold + delta

\* an on_adjust step of a brush tool moved its radius in the direction given, if
\* that stays >= 0
BrushAdjusted ==
    (/\ last'.op = "brush_adjust"
     /\ brush[last'.tool] + Sign(last'.direction) * BrushIncrement >= 0) =>
        brush'[last'.tool] = brush[last'.tool] + Sign(last'.direction) * BrushIncrement

\* an on_adjust step of a flood tool moved its tolerance in the direction given,
\* if that stays in the domain (>= 0 for add, > 0 for remove)
FloodAdjusted ==
    /\ (/\ last'.op = "flood_add_adjust"
        /\ flood.add.tolerance + Sign(last'.direction) * FloodIncrement >= 0) =>
           flood'.add.tolerance = flood.add.tolerance + Sign(last'.direction) * FloodIncrement
    /\ (/\ last'.op = "flood_remove_adjust"
        /\ flood.remove.tolerance + Sign(last'.direction) * FloodIncrement > 0) =>
           flood'.remove.tolerance =
               flood.remove.tolerance + Sign(last'.direction) * FloodIncrement

NavigatedTo(i, d) ==
    IF i + d \in PatchIds
    THEN /\ last'.nav = i + d
         /\ cur' = i + d
         /\ heap'[patches'[cur']].patch_index = i + d
    ELSE /\ last'.nav = -1
         /\ cur' = cur

\* C15: NextPatch at the last index and PreviousPatch at index 0 give
\* (None, -1) to the callback and nothing changes; at any other index they give
\* the patch at index + 1 / index - 1 with its index, which becomes the
\* displayed patch; no patch or stack entry is changed.
C15_NavigationAtTheEnds ==
    [][/\ last'.op = "next_patch" => NavigatedTo(cur, 1)
       /\ last'.op = "previous_patch" => NavigatedTo(cur, -1)
       /\ last'.op \in {"next_patch", "previous_patch"} =>
              /\ heap' = heap /\ patches' = patches /\ um' = um]_vars

\* NextPatch was activated at the last patch
C15_Witness ==
    /\ last.op = "next_patch" /\ last.idx = NumPatches - 1
    /\ last.nav = -1 /\ cur = NumPatches - 1

\* C16: an undo or a redo changes at most the patch whose patch_index is that
\* of the snapshot it returned; the mask and threshold of every other patch,
\* the patch displayed before the step included, stay as they were.
C16_UndoTouchesOnePatch ==
    [][(/\ last'.op \in {"undo", "redo"}
        /\ nEvents' # nEvents
        /\ last'.ret # None) =>
           \A i \in PatchIds :
               i # last'.ret[1].snapshot.patch_index =>
                   /\ heap'[patches'[i]] = heap[patches[i]]
                   /\ heap'[patches'[i]].patch_index = i]_vars

\* patch A was edited, patch B displayed, and the undo restored A
C16_Witness ==
    /\ last.op = "undo" /\ last.ret # None
    /\ last.ret[1].snapshot.patch_index # last.idx
    /\ last.ret[1].tag # "no_root"
    /\ heap[patches[last.ret[1].snapshot.patch_index]] = last.ret[1].snapshot

\* the tag of a drag entry, as the claim gives it
C19_Tag(op, drag_id) ==
    LET base == IF op = "add_region_drag" THEN "add_region_adjust"
                ELSE "remove_region_adjust"
    IN  IF drag_id = None THEN base ELSE base \o "_" \o ToString(drag_id[1])

\* C19: each drag callback of a brush tool pushes exactly one entry, tagged
\* 'add_region_adjust' / 'remove_region_adjust' with '_' and the drag id
\* appended when a drag id is given; k callbacks make k entries.
C19_OneEntryPerDragCallback ==
    [][(last'.op \in DragOps /\ nEvents' # nEvents) =>
          /\ last'.pushes = 1
          /\ Len(um'.undo_stack) =
                 IF Len(um.undo_stack) < MaxUndo THEN Len(um.undo_stack) + 1 ELSE MaxUndo
          /\ Front(um'.undo_stack) =
                 IF Len(um.undo_stack) < MaxUndo THEN um.undo_stack ELSE Tail(um.undo_stack)
          /\ Top(um'.undo_stack).stamp = nEvents'
          /\ Top(um'.undo_stack).tag = C19_Tag(last'.op, last'.drag_id)]_vars

\* a stroke of two drag callbacks with the same drag id has made two entries
C19_Witness ==
    /\ last.op = "add_region_drag" /\ last.drag_id # None
    /\ Len(um.undo_stack) = 2
    /\ um.undo_stack[1].tag = "add_region_adjust_1"
    /\ um.undo_stack[2].tag = "add_region_adjust_1"
    /\ um.undo_stack[1].stamp # um.undo_stack[2].stamp

\* a flood on_adjust step whose new tolerance is outside the domain
RejectedFloodAdjust ==
    /\ nEvents' # nEvents
    /\ \/ last'.op = "flood_add_adjust" /\ last'.value < 0
       \/ last'.op = "flood_remove_adjust" /\ last'.value <= 0

\* C20: a flood on_adjust whose tolerance would leave the domain changes
\* neither the tolerance nor any mask and notifies no observer, with or
\* without a remembered seed.
C20_RejectedAdjustIsSilent ==
    [][RejectedFloodAdjust =>
          /\ flood' = flood
          /\ heap' = heap
          /\ last'.notified = 0]_vars

\* the same, for the masks alone
C20_RejectedAdjustKeepsMask == [][RejectedFloodAdjust => heap' = heap]_vars

----------------------------------------------------------------------------
(* Tool selection: any tool is selected, and clicks go to the active tool *)

ToolbarNext ==
    \/ \E id \in ToolIds : MainWindow_on_tool_selected(id)
    \/ \E position \in ClickPositions :
           toolbar.active["add_region"] /\ AddRegionTool_on_click(position)
    \/ \E position \in ClickPositions :
           toolbar.active["remove_region"] /\ RemoveRegionTool_on_click(position)
    \/ \E position \in ClickPositions :
           toolbar.active["flood_add"] /\ FloodAddTool_on_click(position)
    \/ \E position \in ClickPositions :
           toolbar.active["flood_remove"] /\ FloodRemoveTool_on_click(position)
    \/ \E value \in ThresholdValues :
           toolbar.active["threshold"] /\ ThresholdTool_threshold_set(value)

ToolbarSpec == Init /\ [][ToolbarNext]_vars

ActiveTools == {id \in ToolIds : toolbar.active[id]}

\* the steps that are activations of a one-shot tool
OneShotOps == {"no_root", "previous_patch", "next_patch", "undo", "redo"}

\* C17: after start-up and after any sequence of tool activations exactly one
\* tool is in the active state.
C17_ExactlyOneActiveTool == Cardinality(ActiveTools) = 1

\* markup tools and one-shot tools have been activated, the last one a one-shot
C17_Witness ==
    /\ last.op \in OneShotOps
    /\ toolbar.disabled # {DefaultTool}
    /\ nEvents >= 2

C18_Step ==
    /\ (last'.op \in OneShotOps /\ nEvents' # nEvents) =>
           /\ ~toolbar'.active[last'.op]
           /\ \E id \in MarkupTools : toolbar'.active[id]
    /\ (last'.op = "activate" /\ nEvents' # nEvents) =>
           /\ persistant(last'.tool)
           /\ toolbar'.active[last'.tool]
           /\ <<heap', patches', um'>> = <<heap, patches, um>>
    /\ last'.op \notin OneShotOps \cup {"activate"} => toolbar'.active = toolbar.active

\* C18: activating a non-persistent tool (NoRoot, PreviousPatch, NextPatch,
\* Undo, Redo) does its action in on_activate and the tool is not the active
\* tool afterwards, a persistent tool is; activating a persistent tool leaves
\* it active, through clicks and assignments, until another tool is activated.
C18_OneShotToolsRevert ==
    /\ [](\A id \in OneShotTools : ~toolbar.active[id])
    /\ [][C18_Step]_vars

\* AddRegion was selected and clicked with, then Undo was activated and undid it
C18_Witness ==
    /\ last.op = "undo" /\ last.ret # None
    /\ last.ret[1].tag = "add_region"
    /\ toolbar.disabled = {"add_region"}
    /\ ActiveTools \subseteq MarkupTools /\ ActiveTools # {}

----------------------------------------------------------------------------
(* The brush tools on all-background masks: every centre of the patch, the   *)
(* radius assigned, adjusted and set from the spinbox (0 to 64)              *)

BrushCenters == Cells
BrushRadii == {-1, 0, 1, 2}
SpinboxValues == {0, 1}
\* a threshold that leaves every mask all-background
BackgroundThreshold == ThresholdMax

\* radii that the spinbox of both tools was set to
StartRadii == {1, InitBrushRadius}

BrushInit ==
    \E radius \in StartRadii :
        StartedWith(BackgroundThreshold, InitTolerance, InitTolerance, radius)

BrushNext ==
    \/ \E position \in BrushCenters : AddRegionTool_on_click(position)
    \/ \E position \in BrushCenters : RemoveRegionTool_on_click(position)
    \/ \E tool \in {"add", "remove"}, value \in BrushRadii : BrushTool_brush_radius(tool, value)
    \/ \E tool \in {"add", "remove"}, direction \in Directions : BrushTool_on_adjust(tool, direction)
    \/ \E tool \in {"add", "remove"}, val \in SpinboxValues : BrushTool_on_brush_sizer(tool, val)

BrushSpec == BrushInit /\ [][BrushNext]_vars

\* an on_adjust step that would take the radius below 0
RejectedBrushAdjust ==
    /\ last'.op = "brush_adjust"
    /\ brush[last'.tool] + Sign(last'.direction) * BrushIncrement < 0

C24_AddThenRemoveIsBackground ==
    [][(/\ last.op = "add_region" /\ last.pre.mask = {}
        /\ last'.op = "remove_region" /\ last'.pos = last.pos
        /\ brush.add = brush.remove) =>
           heap'[patches'[cur']].mask = {}]_vars

\* a disk clipped by the patch bounds, less than the whole patch, was added to
\* an all-background mask and removed again
C24_Witness ==
    /\ last.op = "remove_region"
    /\ last.pre.mask # {} /\ last.pre.mask # Cells
    /\ last.pre.mask = Disk(last.pos[1], brush.remove)
    /\ brush.add = brush.remove
    /\ heap[patches[cur]].mask = {}

\* C25: activating a markup tool (Threshold, AddRegion, RemoveRegion, FloodAdd,
\* FloodRemove) changes no patch's mask or threshold and neither the undo nor
\* the redo stack; the tools' parameters and the binding stay as well.
C25_MarkupActivationChangesNothing ==
    [][(last'.op = "activate" /\ nEvents' # nEvents) =>
          /\ last'.tool \in MarkupTools
          /\ \A i \in PatchIds : heap'[patches'[i]] = heap[patches[i]]
          /\ um' = um
          /\ <<cur', tt', brush', flood', fills'>> = <<cur, tt, brush, flood, fills>>]_vars

\* a markup tool was activated with an edit on the undo stack, and the patch is
\* as the edit left it
C25_Witness ==
    /\ last.op = "activate" /\ last.tool = "remove_region"
    /\ um.undo_stack # <<>>
    /\ heap[patches[cur]] = last.pre
    /\ heap[Top(um.undo_stack).snapshot].mask # last.pre.mask

----------------------------------------------------------------------------
(* The preview refresh *)

PreviewSpec == Init /\ [][PreviewNext]_vars

\* C22: every show_image(new=False) cancels the pending preview refresh and
\* schedules a new one, so at most one refresh is pending at any time and no
\* call fails.
C22_AtMostOnePendingRefresh == Cardinality(Pending) <= 1 /\ ~preview.error

----------------------------------------------------------------------------
(* The observers *)

ObserverNext ==
    \/ \E position \in ClickPositions : AddRegionTool_on_click(position)
    \/ \E position \in ClickPositions : RemoveRegionTool_on_click(position)
    \/ \E position \in ClickPositions : FloodAddTool_on_click(position)
    \/ \E position \in ClickPositions : FloodRemoveTool_on_click(position)
    \/ \E position \in ClickPositions, drag_id \in DragIds : AddRegionTool_on_drag(position, drag_id)
    \/ \E f \in fills : DrawThread(f)
    \/ \E direction \in Directions : FloodAddTool_on_adjust(direction)
    \/ \E direction \in Directions : FloodRemoveTool_on_adjust(direction)
    \/ \E value \in ThresholdValues : ThresholdTool_threshold_set(value)

ObserverSpec == Init /\ [][ObserverNext]_vars

\* the step was a successful mutation of the bound patch by a tool
Mutated ==
    \/ last.op \in {"add_region", "remove_region", "flood_add", "flood_remove", "draw"}
    \/ last.op \in FloodAdjustOps /\ last.edits > 0
    \/ last.op = "threshold" /\ last.value \in 0..ThresholdMax

\* C23: after every successful mutation by a tool every bound callback is
\* called, in the order of binding, and the calls that end the step see the
\* patch as the mutation left it.
C23_ObserversNotifiedInOrder ==
    Mutated =>
        LET n == Len(last.calls)
            k == Len(Observers)
        IN  /\ n >= k
            /\ \A i \in 1..k :
                   /\ last.calls[n - k + i].ob = Observers[i]
                   /\ last.calls[n - k + i].sees = heap[patches[last.idx]]

C23_Witness ==
    /\ last.op = "flood_add_adjust"
    /\ last.edits > 0
    /\ Len(last.calls) = 3 * Len(Observers)
    /\ heap[patches[last.idx]] # last.pre

----------------------------------------------------------------------------
(* The threshold tool: assignments, slider, locks and rebinding *)

SliderValues == {0, 60, ThresholdMax}
RebindingTools == {"next_patch", "previous_patch", "undo", "redo"}

\* the threshold tool may have had its first assignment (of the value it held)
ThresholdInit ==
    \E t \in InitThresholds, new_patch \in BOOLEAN :
        StartedFrom(t, InitTolerance, InitTolerance, InitBrushRadius, new_patch)

ThresholdNext ==
    \/ \E direction \in Directions : ThresholdTool_on_adjust(direction)
    \/ \E value \in AdjustThresholdValues : ThresholdTool_threshold_set(value)
    \/ \E value \in SliderValues : ThresholdTool_on_threshold_slider(value)
    \/ ThresholdTool_lock_undos
    \/ ThresholdTool_unlock_undos
    \/ MainWindow_update_info_panel
    \/ \E id \in RebindingTools : MainWindow_on_tool_selected(id)

ThresholdSpec == ThresholdInit /\ [][ThresholdNext]_vars

\* C26: the threshold of the threshold tool and of every patch, live or kept
\* as a snapshot, lies in [0, 1].
C26_ThresholdsInRange ==
    /\ tt.threshold \in 0..ThresholdMax
    /\ \A o \in ObjIds : heap[o] # Free => heap[o].threshold \in 0..ThresholdMax

\* on_adjust at 1 was refused, after a slider move and with a snapshot kept
C26_Witness ==
    /\ last.op = "threshold" /\ last.direction # 0
    /\ last.value > ThresholdMax
    /\ tt.slider_init
    /\ Len(um.undo_stack) > 0

----------------------------------------------------------------------------
(* NoRootTool *)

\* C27: NoRootTool.on_activate pushes one entry tagged "no_root" that holds the
\* patch as it was before the clear, leaves the bound patch all background, and
\* hands the activation callback the next patch, or (None, -1) at the last
\* patch, where the entry is pushed and the mask cleared all the same.
C27_NoRootClearsAndAdvances ==
    last.op = "no_root" =>
        LET atEnd == last.idx + 1 >= NumPatches
        IN  /\ last.pushes = 1
            /\ Len(um.undo_stack) = IF last.undoLen < MaxUndo THEN last.undoLen + 1 ELSE MaxUndo
            /\ Top(um.undo_stack).tag = "no_root"
            /\ heap[Top(um.undo_stack).snapshot] = last.pre
            /\ heap[patches[last.idx]] = clear_mask(last.pre)
            /\ last.nav = (IF atEnd THEN -1 ELSE last.idx + 1)
            /\ cur = (IF atEnd THEN last.idx ELSE last.idx + 1)

\* NoRoot at the last patch, whose mask had foreground
C27_Witness ==
    /\ last.op = "no_root" /\ last.idx = NumPatches - 1
    /\ last.pre.mask # {}
    /\ last.nav = -1 /\ cur = NumPatches - 1
    /\ heap[patches[cur]].mask = {}

----------------------------------------------------------------------------
(* The first assignment after a new patch *)

\* the step assigns a threshold in [0, 1]
InRangeAssignment ==
    /\ last'.op = "threshold"
    /\ nEvents' # nEvents
    /\ last'.value \in 0..ThresholdMax

\* the step is a navigation, an undo or a redo
RebindingStep ==
    /\ last'.op \in {"next_patch", "previous_patch", "undo", "redo"}
    /\ nEvents' # nEvents

\* C28: the first in-range assignment after the threshold tool was bound to a
\* patch of another index sets the tool's threshold and notifies, but writes
\* no patch and pushes nothing; the next one writes the patch and, with undos
\* unlocked, pushes one entry.  Binding a patch of the same index suppresses
\* nothing.
C28_FirstAssignmentSuppressed ==
    /\ [][(InRangeAssignment /\ tt.new_patch) =>
              /\ tt'.threshold = last'.value /\ ~tt'.new_patch
              /\ last'.notified = 1
              /\ heap' = heap /\ patches' = patches /\ um' = um
              /\ last'.pushes = 0]_vars
    /\ [][(InRangeAssignment /\ ~tt.new_patch) =>
              /\ tt'.threshold = last'.value /\ ~tt'.new_patch
              /\ heap'[patches'[cur]].threshold = last'.value
              /\ last'.pushes = (IF tt.can_undo THEN 1 ELSE 0)]_vars
    /\ [][RebindingStep => (tt'.new_patch = (tt.new_patch \/ cur' # cur))]_vars

\* an undo installed a snapshot of the displayed patch: the tool was rebound to
\* the same index and its next assignment is not suppressed
C28_Witness ==
    /\ last.op = "undo" /\ last.ret # None
    /\ last.ret[1].snapshot.patch_index = last.idx
    /\ cur = last.idx
    /\ ~tt.new_patch

----------------------------------------------------------------------------
(* Locked undos *)

\* C29: with the undos locked, an in-range assignment of a threshold tool past
\* its first assignment writes the patch's threshold and notifies, but leaves
\* both stacks as they are; update_info_panel for the threshold tool ends with
\* the undos unlocked, and an assignment with undos unlocked pushes one entry.
C29_LockedAssignmentPushesNothing ==
    /\ [][(InRangeAssignment /\ ~tt.can_undo /\ ~tt.new_patch) =>
              /\ heap'[patches'[cur]].threshold = last'.value
              /\ last'.notified = 1
              /\ last'.pushes = 0
              /\ um' = um]_vars
    /\ [][last'.op = "update_info_panel" => tt'.can_undo]_vars
    /\ [][(InRangeAssignment /\ tt.can_undo /\ ~tt.new_patch) =>
              /\ last'.pushes = 1
              /\ Top(um'.undo_stack).tag = "threshold_adjust"
              /\ um'.redo_stack = <<>>]_vars

\* an assignment with undos locked changed the patch and kept the redo stack
C29_Witness ==
    /\ last.op = "threshold" /\ last.edits = 1 /\ last.pushes = 0
    /\ ~tt.can_undo
    /\ heap[patches[cur]].threshold = last.value
    /\ last.pre.threshold # last.value
    /\ um.redo_stack # <<>>

----------------------------------------------------------------------------
(* A drag fill and the patch it was dispatched for *)

\* C30: the fill of a drag step changes no mask but that of the patch that was
\* bound when the step was dispatched (f.idx), whatever is bound when the draw
\* thread runs.
C30_FillStaysOnDispatchPatch ==
    [][\A f \in fills :
          (last'.op = "draw" /\ last'.stamp = f.stamp /\ f \notin fills') =>
              \A i \in PatchIds :
                  i # f.idx => heap'[patches'[i]].mask = heap[patches[i]].mask]_vars

----------------------------------------------------------------------------
(* The snapshots of consecutive drag steps *)

\* the step dispatches a drag step
DragDispatched ==
    /\ last'.op \in {"add_region_drag", "remove_region_drag"}
    /\ nEvents' # nEvents

\* C31: the snapshot a drag step pushes holds the fill of every drag step
\* dispatched before it on the same patch, so that undoing its entry loses no
\* earlier step's edit.
C31_SnapshotHoldsEarlierFills ==
    [][DragDispatched =>
          \A f \in fills :
              f.idx = cur =>
                  LET snap == heap'[Top(um'.undo_stack).snapshot].mask
                  IN  IF f.tool = "add"
                      THEN Disk(f.position, brush.add) \subseteq snap
                      ELSE Disk(f.position, brush.remove) \cap snap = {}]_vars

----------------------------------------------------------------------------
(* A fill that runs after an undo *)

\* the step is a draw thread running right after an undo installed a snapshot
DrawAfterUndo ==
    /\ last.op = "undo" /\ last.ret # None
    /\ last'.op = "draw"

\* C32: after an undo has installed the popped snapshot as the live patch, a
\* fill dispatched before the undo does not change the live mask: it stays the
\* snapshot's mask.
C32_NoFillAfterUndo ==
    [][DrawAfterUndo =>
          /\ heap[patches[cur]].mask = last.ret[1].snapshot.mask
          /\ heap'[patches'[cur]].mask = last.ret[1].snapshot.mask]_vars

----------------------------------------------------------------------------
(* The flood tools: clicks, tolerances and rebinding *)

ToleranceValues == {-1, 0, 2}

FloodInit ==
    \E t \in InitThresholds, tolAdd \in AddTolerances, tolRemove \in RemoveTolerances :
        Started(t, tolAdd, tolRemove)

FloodNext ==
    \/ \E position \in ClickPositions : FloodAddTool_on_click(position)
    \/ \E position \in ClickPositions : FloodRemoveTool_on_click(position)
    \/ \E direction \in Directions : FloodAddTool_on_adjust(direction)
    \/ \E direction \in Directions : FloodRemoveTool_on_adjust(direction)
    \/ \E value \in ToleranceValues : FloodAddTool_tolerance(value)
    \/ \E value \in ToleranceValues : FloodRemoveTool_tolerance(value)
    \/ \E id \in RebindingTools : MainWindow_on_tool_selected(id)

FloodSpec == FloodInit /\ [][FloodNext]_vars

\* the step is an on_adjust or a tolerance assignment of the flood tool k
ToleranceStep(k) ==
    /\ last'.op \in {"flood_" \o k \o "_adjust", "flood_" \o k \o "_tolerance"}
    /\ nEvents' # nEvents

\* the tolerance the tool k accepts
Accepted(k, value) == IF k = "add" THEN value >= 0 ELSE value > 0

\* C33: without a click on the flood tool since its patch was set (or since
\* the start), on_adjust and tolerance assignments change the tolerance, when
\* they are accepted, and nothing else: no mask, no patch, no stack entry.
C33_NoFloodFromStaleSeed ==
    [][\A k \in {"add", "remove"} :
          (ToleranceStep(k) /\ ~flood[k].clicked) =>
              /\ heap' = heap /\ patches' = patches
              /\ um' = um
              /\ flood'[k].tolerance =
                     (IF Accepted(k, last'.value) THEN last'.value ELSE flood[k].tolerance)
              /\ flood'[k].prev_position = None]_vars

\* a FloodAdd click was undone, which rebinds the tool, and the tolerance then
\* raised by on_adjust
C33_Witness ==
    /\ last.op = "flood_add_adjust"
    /\ um.redo_stack # <<>> /\ Top(um.redo_stack).tag = "flood_add"
    /\ ~flood.add.clicked
    /\ flood.add.tolerance = last.value
    /\ heap[patches[cur]] = last.pre

----------------------------------------------------------------------------
(* on_adjust after a flood click *)

\* C34: an on_adjust of FloodAdd turns no foreground cell into background, an
\* on_adjust of FloodRemove no background cell into foreground, whichever way
\* the tolerance goes.
C34_AdjustIsMonotone ==
    [][/\ (last'.op = "flood_add_adjust" /\ nEvents' # nEvents) =>
              \A i \in PatchIds : heap[patches[i]].mask \subseteq heap'[patches'[i]].mask
       /\ (last'.op = "flood_remove_adjust" /\ nEvents' # nEvents) =>
              \A i \in PatchIds : heap'[patches'[i]].mask \subseteq heap[patches[i]].mask]_vars

\* the tolerance was lowered after a click, and the mask keeps a cell that
\* neither the start mask nor a fill at the lower tolerance holds
C34_Witness ==
    /\ last.op = "flood_add_adjust" /\ last.direction < 0 /\ last.edits = 1
    /\ flood.add.prev_position # None
    /\ \E c \in heap[patches[cur]].mask :
           /\ \A t \in InitThresholds : c \notin ThresholdMask(cur, t)
           /\ c \notin FloodRegion(cur, flood.add.prev_position[1], flood.add.tolerance)

----------------------------------------------------------------------------
(* The domains of the tolerances *)

\* C35: FloodAddTool's tolerance is never below 0 and FloodRemoveTool's never
\* at or below 0: an assignment of 0 is taken by FloodAdd and refused by
\* FloodRemove, a negative one is refused by both.
C35_ToleranceDomains ==
    /\ [](flood.add.tolerance >= 0 /\ flood.remove.tolerance > 0)
    /\ [][/\ (ToleranceStep("add") /\ last'.value = 0) => flood'.add.tolerance = 0
          /\ (ToleranceStep("remove") /\ last'.value = 0) =>
                 flood'.remove.tolerance = flood.remove.tolerance
          /\ \A k \in {"add", "remove"} :
                 (ToleranceStep(k) /\ last'.value < 0) =>
                     flood'[k].tolerance = flood[k].tolerance]_vars

\* on_adjust(-1) of FloodRemove at one increment was refused, FloodAdd being at 0
C35_Witness ==
    /\ last.op = "flood_remove_adjust" /\ last.direction < 0 /\ last.value = 0
    /\ flood.remove.tolerance = FloodIncrement
    /\ flood.add.tolerance = 0

----------------------------------------------------------------------------
(* Navigation leaves the patches and the history alone *)

\* the step is NextPatchTool's or PreviousPatchTool's on_activate
NavigationStep ==
    /\ last'.op \in {"next_patch", "previous_patch"}
    /\ nEvents' # nEvents

\* C36: PreviousPatchTool.on_activate and NextPatchTool.on_activate change no
\* patch's mask or threshold and neither stack, with or without a further
\* patch to go to.
C36_NavigationKeepsPatchesAndStacks ==
    [][NavigationStep =>
          /\ \A i \in PatchIds : heap'[patches'[i]] = heap[patches[i]]
          /\ Len(um'.undo_stack) = Len(um.undo_stack)
          /\ Len(um'.redo_stack) = Len(um.redo_stack)
          /\ \A n \in 1..Len(um.undo_stack) :
                 /\ um'.undo_stack[n].tag = um.undo_stack[n].tag
                 /\ heap'[um'.undo_stack[n].snapshot] = heap[um.undo_stack[n].snapshot]
          /\ \A n \in 1..Len(um.redo_stack) :
                 /\ um'.redo_stack[n].tag = um.redo_stack[n].tag
                 /\ heap'[um'.redo_stack[n].snapshot] = heap[um.redo_stack[n].snapshot]]_vars

\* PreviousPatch went back to patch 0 with an entry on the undo stack
C36_Witness ==
    /\ last.op = "previous_patch" /\ last.nav = 0 /\ cur = 0
    /\ um.undo_stack # <<>>

----------------------------------------------------------------------------
(* The toolbar buttons *)

\* C37: at most one toolbar button is disabled; selecting a persistent tool
\* leaves its button the only disabled one, selecting a tool that is not
\* persistent leaves every button as it was, and so does every other step.
C37_OneButtonDisabled ==
    /\ [](Cardinality(toolbar.disabled) <= 1)
    /\ [][/\ (last'.op = "activate" /\ nEvents' # nEvents) =>
                 toolbar'.disabled = {last'.tool}
          /\ ~(last'.op = "activate" /\ nEvents' # nEvents) =>
                 toolbar'.disabled = toolbar.disabled]_vars

\* FloodAdd was selected, then NextPatch: the FloodAdd button is still the
\* disabled one
C37_Witness ==
    /\ last.op = "next_patch" /\ last.nav # -1
    /\ toolbar.disabled = {"flood_add"}

----------------------------------------------------------------------------
(* A new image and the refresh of an earlier edit *)

\* the timer id fires in this step
Fires(id) == preview.timers[id] = "waiting" /\ preview'.timers[id] = "fired"

\* C38: once show_image(new=True) has been called, no refresh timer that was
\* pending at that call fires.
C38_NoStaleRefresh ==
    [][\A id \in TimerIds :
          (last.op = "show_image_new" /\ Fires(id)) => id \notin last.pending]_vars

----------------------------------------------------------------------------
(* The event logger *)

RECURSIVE Strings(_)
\* the strings of at most n characters
Strings(n) ==
    IF n = 0 THEN {<<>>}
    ELSE Strings(n - 1) \cup {Append(str, ch) : str \in Strings(n - 1), ch \in Chars}

\* the active_tool_id arguments: None, "?", or a tool id
ToolIdArguments == {None, Some(Unknown)} \cup {Some(str) : str \in Strings(MaxIdLen) \ {<<>>}}

LoggerNext == \E active_tool_id \in ToolIdArguments : EventLogger_log_event(active_tool_id)

LoggerSpec == Init /\ [][LoggerNext]_vars

\* the event logged in this step
Logged == Top(logger'.events)

\* C39: log_event with no id or with "?" records the stored active tool and
\* leaves it as it is; with any other id the stored active tool becomes that
\* id in lower case with "_" for every space, which is what later events
\* without an id record.
C39_LoggerKeepsNormalizedTool ==
    [][logger'.events # logger.events =>
          IF Logged.given \in {None, Some(Unknown)}
          THEN /\ Logged.active_tool_id = logger.active_tool
               /\ logger'.active_tool = logger.active_tool
          ELSE LET id == Logged.given[1]
               IN  /\ Len(logger'.active_tool) = Len(id)
                   /\ \A n \in 1..Len(id) :
                          logger'.active_tool[n] =
                              (CASE id[n] = " " -> "_"
                                 [] id[n] = "A" -> "a"
                                 [] OTHER -> id[n])]_vars

\* an event with the id "A " was logged, then one without an id: it carries "a_"
C39_Witness ==
    /\ Len(logger.events) = 2
    /\ logger.events[1].given = Some(<<"A", " ">>)
    /\ logger.events[2].given = None
    /\ logger.events[2].active_tool_id = <<"a", "_">>
    /\ logger.active_tool = <<"a", "_">>

====
